---- MODULE Spec2Model ----
(***************************************************************************)
(* Workspace persistence service of the Launchloom backend:                *)
(* backend/app/services/workspaces.py, backend/app/api/routes/workspaces.py*)
(* and the tables of backend/app/models/workspace.py.                      *)
(*                                                                         *)
(* The three tables are sequences of committed rows, in insertion order;   *)
(* a row's id is its position.  Every request runs in a session of its     *)
(* own (get_async_db); a request is a sequence of steps, one per database  *)
(* round trip (each `await db...` of the code), so that other requests     *)
(* interleave exactly where the code suspends.  session.commit() flushes   *)
(* the pending rows and commits in one round trip: the transaction is      *)
(* applied as a whole or rolled back as a whole.  A session begins its     *)
(* transaction with its first statement, and created_at (server default    *)
(* now()) is the clock reading at that moment.  Rows that a session has    *)
(* flushed but not committed are kept with the session and are invisible   *)
(* to the others.  Fields `generated`, `supplied` and `via` of a row are   *)
(* history: they record how the row came to be and no action reads them.   *)
(***************************************************************************)
EXTENDS Integers, Sequences, FiniteSets, TLC

VARIABLES
    workspaces,   \* committed rows of table workspaces
    members,      \* committed rows of table workspace_members
    runs,         \* committed rows of table workspace_runs
    pc,           \* per request: the step the request is at
    call,         \* per request: the operation and its validated payload
    local,        \* per request: the local variables of the running handler
    resp,         \* per request: the outcome returned to the caller
    now,          \* the database clock, as the SQL function now() reads it
    cache         \* the CacheManager instance and the Redis store behind it

vars == <<workspaces, members, runs, pc, call, local, resp, now, cache>>

-----------------------------------------------------------------------------
(* Bounds of the model *)

MaxWorkspaces == 2
MaxMembers == 3
MaxRuns == 2
MaxClock == 1
MaxCounter == 2

\* Requests that may be in flight at the same time (one session each).
Req == {"r1", "r2"}

-----------------------------------------------------------------------------
(* Values *)

\* Optional[T]: None is the empty sequence, a value v is <<v>>.
None == <<>>
Some(v) == <<v>>

\* Python truthiness of an Optional[str]: None and "" are falsy.
Truthy(opt) == opt # None /\ opt[1] # ""

OWNER == "owner"
ADMIN == "admin"
EDITOR == "editor"
VIEWER == "viewer"
WorkspaceRole == {OWNER, ADMIN, EDITOR, VIEWER}

INVITED == "invited"
ACTIVE == "active"
SUSPENDED == "suspended"
REVOKED == "revoked"
MembershipStatus == {INVITED, ACTIVE, SUSPENDED, REVOKED}

\* uuid.uuid4() rendered as a string: any value of the generator's range,
\* and nothing in the code keeps two draws apart.
PublicIds == {"uuid-1", "uuid-2"}

\* python-slugify on the names the model uses: lower-cases, turns runs of
\* non-alphanumerics into single hyphens, strips leading/trailing hyphens.
slugify(name) ==
    CASE name = "Acme Corp"   -> "acme-corp"
      [] name = "ACME  corp!" -> "acme-corp"
      [] name = "Acme Corp 2" -> "acme-corp-2"
      [] name = "!!!"         -> ""
      [] OTHER                -> name

-----------------------------------------------------------------------------
(* Tables and their constraints *)

SlugTaken(ws, s) == \E i \in 1..Len(ws) : ws[i].slug = s

PublicIdTaken(ws, p) == \E i \in 1..Len(ws) : ws[i].public_id = p

MemberEmailTaken(ms, wid, email) ==
    \E i \in 1..Len(ms) : ms[i].workspace_id = wid /\ ms[i].email = email

\* Mutant: the table lacks uq_workspaces_public_id.
WorkspaceViolationsNoPublicId(ws, row) ==
    {c \in {"uq_workspaces_slug"} : SlugTaken(ws, row.slug)}
      \cup {c \in {"fk_workspaces_created_by"} : ~row.creator_exists}

\* Mutant: the table lacks uq_workspaces_slug.
WorkspaceViolationsNoSlug(ws, row) ==
    {c \in {"uq_workspaces_public_id"} : PublicIdTaken(ws, row.public_id)}
      \cup {c \in {"fk_workspaces_created_by"} : ~row.creator_exists}

\* The constraints an INSERT of a workspaces row violates.
WorkspaceViolations(ws, row) ==
    {c \in {"uq_workspaces_slug"} : SlugTaken(ws, row.slug)}
      \cup {c \in {"uq_workspaces_public_id"} : PublicIdTaken(ws, row.public_id)}
      \cup {c \in {"fk_workspaces_created_by"} : ~row.creator_exists}

\* Mutant: the table lacks uq_workspace_member_email.
MemberViolationsNone(ms, row) == {}

\* The constraints an INSERT of a workspace_members row violates.
MemberViolations(ms, row) ==
    {c \in {"uq_workspace_member_email"} :
        MemberEmailTaken(ms, row.workspace_id, row.email)}

\* The unit of work flushes the member rows one by one after the workspace
\* row; the first violation aborts the flush.
RECURSIVE FlushMembers(_, _, _)
FlushMembers(ms, rows, k) ==
    IF k > Len(rows) THEN [ok |-> TRUE, members |-> ms, violations |-> {}]
    ELSE LET v == MemberViolations(ms, rows[k])
         IN IF v # {} THEN [ok |-> FALSE, members |-> ms, violations |-> v]
            ELSE FlushMembers(Append(ms, rows[k]), rows, k + 1)

-----------------------------------------------------------------------------
(* services/workspaces.py: create_workspace *)

Idle == [op |-> "none"]
NoLocal == [none |-> TRUE]
NoResp == [op |-> "none", status |-> 0]

\* The session has not executed a statement yet: no transaction is open.
NoTransaction == -1

\* The start time of the session's transaction once a statement executes.
Begun(began) == IF began = NoTransaction THEN now ELSE began

\* Rows of create_workspace still to be committed count against the cap.
Creating == {r \in Req : call[r].op = "create_workspace" /\ pc[r] # "done"}

RECURSIVE SumOver(_, _)
SumOver(S, f) ==
    IF S = {} THEN 0
    ELSE LET x == CHOOSE y \in S : TRUE IN f[x] + SumOver(S \ {x}, f)

\* Member rows that in-flight creations may still insert.
PendingInitialMembers ==
    SumOver(Creating, [r \in Creating |-> Len(call[r].members)])

\* Member rows that open sessions of add_workspace_member have inserted.
PendingSessions ==
    SumOver({r \in Req : call[r].op = "add_workspace_member"
                          /\ pc[r] \in {"in_session", "flush"}},
            [r \in Req |-> Len(local[r].inserted)])

\* Mutant: initial members get the status rule of add_workspace_member.
InitialMemberActiveUnlessViewer(wid, m) ==
    [workspace_id |-> wid,
     email |-> m.email,
     role |-> m.role,
     status |-> IF m.role # VIEWER THEN ACTIVE ELSE INVITED,
     joined_at |-> None,
     via |-> "create_workspace"]

\* WorkspaceMember(...) built for one supplied member.
InitialMember(wid, m) ==
    [workspace_id |-> wid,
     email |-> m.email,
     role |-> m.role,
     status |-> IF m.role = OWNER THEN ACTIVE ELSE INVITED,
     joined_at |-> None,
     via |-> "create_workspace"]

\* A request enters create_workspace_endpoint with a validated payload.
\* With a truthy slug the handler goes straight to the commit; otherwise it
\* enters _generate_unique_slug with counter = 1 and the base slug.
BeginCreateWorkspace(r, payload) ==
    /\ pc[r] \in {"idle", "done"}
    /\ Len(workspaces) + Cardinality(Creating) < MaxWorkspaces
    /\ Len(members) + PendingInitialMembers + PendingSessions
          + Len(payload.members) <= MaxMembers
    /\ resp' = [resp EXCEPT ![r] = NoResp]
    /\ call' = [call EXCEPT ![r] = [op |-> "create_workspace"] @@ payload]
    /\ IF Truthy(payload.slug)
       THEN /\ pc' = [pc EXCEPT ![r] = "commit"]
            /\ local' = [local EXCEPT ![r] =
                  [slug |-> payload.slug[1], generated |-> FALSE, checks |-> 0,
                   began |-> NoTransaction]]
       ELSE LET base_slug == IF slugify(payload.name) # ""
                             THEN slugify(payload.name) ELSE "workspace"
            IN /\ pc' = [pc EXCEPT ![r] = "slug_check"]
               /\ local' = [local EXCEPT ![r] =
                     [base_slug |-> base_slug, slug_candidate |-> base_slug,
                      counter |-> 1, checks |-> 0, began |-> NoTransaction]]
    /\ UNCHANGED <<workspaces, members, runs, now, cache>>

\* Mutant: the candidate stays the base slug.
NextCandidateIsBase(base_slug, counter) == base_slug

\* Mutant: the candidate is formatted before the counter is incremented.
NextCandidateBeforeIncrement(base_slug, counter) ==
    base_slug \o "-" \o ToString(counter)

\* f"{base_slug}-{counter}" after counter += 1.
NextCandidate(base_slug, counter) == base_slug \o "-" \o ToString(counter + 1)

\* One iteration of the loop of _generate_unique_slug: one SELECT against
\* the committed rows.
SlugCheck(r) ==
    /\ pc[r] = "slug_check"
    /\ IF ~SlugTaken(workspaces, local[r].slug_candidate)
       THEN /\ pc' = [pc EXCEPT ![r] = "commit"]
            /\ local' = [local EXCEPT ![r] =
                  [slug |-> local[r].slug_candidate, generated |-> TRUE,
                   checks |-> local[r].checks + 1,
                   began |-> Begun(local[r].began)]]
       ELSE /\ pc' = pc
            /\ local' = [local EXCEPT ![r] =
                  [@ EXCEPT !.counter = @ + 1,
                            !.slug_candidate =
                                NextCandidate(local[r].base_slug, local[r].counter),
                            !.checks = @ + 1,
                            !.began = Begun(@)]]
    /\ UNCHANGED <<workspaces, members, runs, call, resp, now, cache>>

\* _generate_unique_slug(db, name) called on its own: the loop starts with
\* counter = 1 and the base slug.
BeginGenerateSlug(r, name) ==
    /\ pc[r] \in {"idle", "done"}
    /\ resp' = [resp EXCEPT ![r] = NoResp]
    /\ call' = [call EXCEPT ![r] = [op |-> "_generate_unique_slug", name |-> name]]
    /\ LET base_slug == IF slugify(name) # "" THEN slugify(name) ELSE "workspace"
       IN local' = [local EXCEPT ![r] =
             [base_slug |-> base_slug, slug_candidate |-> base_slug,
              counter |-> 1, checks |-> 0, began |-> NoTransaction]]
    /\ pc' = [pc EXCEPT ![r] = "slug_check"]
    /\ UNCHANGED <<workspaces, members, runs, now, cache>>

\* return slug_candidate
ReturnSlug(r) ==
    /\ pc[r] = "commit"
    /\ call[r].op = "_generate_unique_slug"
    /\ resp' = [resp EXCEPT ![r] =
          [op |-> call[r].op, status |-> 0, raised |-> "none", violations |-> {},
           slug |-> local[r].slug, checks |-> local[r].checks]]
    /\ pc' = [pc EXCEPT ![r] = "done"]
    /\ call' = [call EXCEPT ![r] = Idle]
    /\ local' = [local EXCEPT ![r] = NoLocal]
    /\ UNCHANGED <<workspaces, members, runs, now, cache>>

\* Mutant: the failed unit of work is not rolled back.
RollbackKeepsFlushed(before, flushed) == flushed

\* What db.rollback() leaves of the tables after a failed flush.
Rollback(before, flushed) == before

\* db.add(workspace); db.commit(): INSERT of the workspace row (public_id
\* drawn by the column default), INSERT of its member rows, COMMIT.  An
\* IntegrityError rolls back and is raised as WorkspaceAlreadyExistsError,
\* which the endpoint answers with 409.
CommitCreateWorkspace(r) ==
    /\ pc[r] = "commit"
    /\ call[r].op = "create_workspace"
    /\ \E public_id \in PublicIds :
         LET wid == Len(workspaces) + 1
             row == [id |-> wid,
                     public_id |-> public_id,
                     name |-> call[r].name,
                     slug |-> local[r].slug,
                     created_at |-> Begun(local[r].began),
                     creator_exists |-> call[r].creator_exists,
                     generated |-> local[r].generated,
                     supplied |-> call[r].members]
             wviol == WorkspaceViolations(workspaces, row)
             mrows == [k \in 1..Len(call[r].members) |->
                          InitialMember(wid, call[r].members[k])]
             mflush == IF wviol = {} THEN FlushMembers(members, mrows, 1)
                       ELSE [ok |-> FALSE, members |-> members, violations |-> wviol]
             flushed == [workspaces |-> IF wviol = {} THEN Append(workspaces, row)
                                        ELSE workspaces,
                         members |-> mflush.members]
             before == [workspaces |-> workspaces, members |-> members]
         IN IF mflush.ok
            THEN /\ workspaces' = flushed.workspaces
                 /\ members' = flushed.members
                 /\ resp' = [resp EXCEPT ![r] =
                       [op |-> "create_workspace_endpoint", status |-> 201,
                        raised |-> "none", workspace_id |-> wid, violations |-> {}]]
            ELSE /\ workspaces' = Rollback(before, flushed).workspaces
                 /\ members' = Rollback(before, flushed).members
                 /\ resp' = [resp EXCEPT ![r] =
                       [op |-> "create_workspace_endpoint", status |-> 409,
                        raised |-> "WorkspaceAlreadyExistsError", workspace_id |-> 0,
                        violations |-> mflush.violations]]
    /\ pc' = [pc EXCEPT ![r] = "done"]
    /\ UNCHANGED <<runs, call, local, now, cache>>

-----------------------------------------------------------------------------
(* services/workspaces.py: lookups; routes/workspaces.py: _resolve_workspace *)

\* scalars().one_or_none() over the rows matching a unique column: the id
\* of the matching row, or 0 for None.
get_workspace_by_public_id(ws, public_id) ==
    IF \E i \in 1..Len(ws) : ws[i].public_id = public_id
    THEN CHOOSE i \in 1..Len(ws) : ws[i].public_id = public_id
    ELSE 0

\* Mutant: a lookup that finds nothing returns the first workspace.
get_workspace_by_slug_default(ws, slug) ==
    IF \E i \in 1..Len(ws) : ws[i].slug = slug
    THEN CHOOSE i \in 1..Len(ws) : ws[i].slug = slug
    ELSE IF Len(ws) > 0 THEN 1 ELSE 0

get_workspace_by_slug(ws, slug) ==
    IF \E i \in 1..Len(ws) : ws[i].slug = slug
    THEN CHOOSE i \in 1..Len(ws) : ws[i].slug = slug
    ELSE 0

ResolvingEndpoints ==
    {"get_workspace_endpoint", "list_workspace_runs_endpoint",
     "create_workspace_run_endpoint"}

\* The step that follows _resolve_workspace in each endpoint.
AfterResolve(op) ==
    IF op = "create_workspace_run_endpoint" THEN "commit_run" ELSE "list_runs"

\* The limit and offset an endpoint passes to list_workspace_runs:
\* get_workspace_endpoint passes limit=run_limit, offset=0.
PageOf(request) ==
    IF request.op = "get_workspace_endpoint"
    THEN [limit |-> request.run_limit, offset |-> 0]
    ELSE IF request.op = "list_workspace_runs_endpoint"
    THEN [limit |-> request.limit, offset |-> request.offset]
    ELSE [limit |-> 0, offset |-> 0]

\* Run rows that in-flight requests may still insert.
CreatingRun ==
    {r \in Req : call[r].op = "create_workspace_run_endpoint" /\ pc[r] # "done"}

\* The handler returns or raises: the request's session is closed and its
\* objects are gone; only the response remains.
Finished(r) ==
    /\ pc' = [pc EXCEPT ![r] = "done"]
    /\ call' = [call EXCEPT ![r] = Idle]
    /\ local' = [local EXCEPT ![r] = NoLocal]

\* The ids of the runs of one workspace:
\* WHERE workspace_runs.workspace_id = :id.
RunsOf(rs, wid) == {i \in 1..Len(rs) : rs[i].workspace_id = wid}

\* A request enters one of the endpoints that take {workspace_id}; `seen`
\* remembers how many workspaces were persisted when it arrived, `eager`
\* whether the workspace object came with its members and runs loaded,
\* `loaded` the runs in its collection.
BeginResolving(r, request) ==
    /\ pc[r] \in {"idle", "done"}
    /\ request.op \in ResolvingEndpoints
    /\ request.op = "create_workspace_run_endpoint"
          => Len(runs) + Cardinality(CreatingRun) < MaxRuns
    /\ call' = [call EXCEPT ![r] = request]
    /\ local' = [local EXCEPT ![r] =
          [seen |-> Len(workspaces), workspace |-> 0, eager |-> FALSE,
           loaded |-> {}, began |-> NoTransaction,
           limit |-> PageOf(request).limit, offset |-> PageOf(request).offset,
           items |-> <<>>]]
    /\ resp' = [resp EXCEPT ![r] = NoResp]
    /\ pc' = [pc EXCEPT ![r] = "resolve_public_id"]
    /\ UNCHANGED <<workspaces, members, runs, now, cache>>

\* _resolve_workspace, first query: get_workspace_by_public_id, which loads
\* the workspace with its members and runs (selectinload).  It is the first
\* statement of the session and begins its transaction.
ResolvePublicId(r) ==
    /\ pc[r] = "resolve_public_id"
    /\ LET w == get_workspace_by_public_id(workspaces, call[r].workspace_id)
       IN IF w # 0
          THEN /\ local' = [local EXCEPT ![r].workspace = w,
                                          ![r].eager = TRUE,
                                          ![r].loaded = RunsOf(runs, w),
                                          ![r].began = Begun(@)]
               /\ pc' = [pc EXCEPT ![r] = AfterResolve(call[r].op)]
          ELSE /\ local' = [local EXCEPT ![r].began = Begun(@)]
               /\ pc' = [pc EXCEPT ![r] = "resolve_slug"]
    /\ UNCHANGED <<workspaces, members, runs, call, resp, now, cache>>

\* _resolve_workspace, second query: get_workspace_by_slug, which loads the
\* workspace row alone (no loader options), and the 404 when it finds
\* nothing either.
ResolveSlug(r) ==
    /\ pc[r] = "resolve_slug"
    /\ LET w == get_workspace_by_slug(workspaces, call[r].workspace_id)
       IN IF w # 0
          THEN /\ local' = [local EXCEPT ![r].workspace = w]
               /\ pc' = [pc EXCEPT ![r] = AfterResolve(call[r].op)]
               /\ resp' = resp
               /\ call' = call
          ELSE /\ Finished(r)
               /\ resp' = [resp EXCEPT ![r] =
                     [op |-> call[r].op, status |-> 404, raised |-> "HTTPException",
                      violations |-> {}]]
    /\ UNCHANGED <<workspaces, members, runs, now, cache>>

\* Mutant: the run queries are not restricted to the workspace.
RunsOfAnyWorkspace(rs, wid) == {i \in 1..Len(rs) : TRUE}

\* The rows a run query of list_workspace_runs selects from.
RunsMatching(rs, wid) == RunsOf(rs, wid)

\* ORDER BY created_at DESC over the rows S of table t: the sequences the
\* database may return, rows of equal created_at in either order.
NewestFirst(t, S) ==
    {o \in [1..Cardinality(S) -> S] :
        /\ \A a, b \in 1..Cardinality(S) : a # b => o[a] # o[b]
        /\ \A a, b \in 1..Cardinality(S) :
              a < b => t[o[a]].created_at >= t[o[b]].created_at}

\* OFFSET :offset LIMIT :limit applied to an ordered result.
Page(o, limit, offset) ==
    IF offset >= Len(o) THEN <<>>
    ELSE SubSeq(o, offset + 1, IF offset + limit < Len(o) THEN offset + limit ELSE Len(o))

\* Mutant: the count's WHERE clause matches a single row at most.
CountAtMostOne(S, page) == IF S = {} THEN 0 ELSE 1

\* Mutant: the count is taken over the page that was fetched.
CountOfPage(S, page) == Len(page)

\* select(func.count()): the number of rows S, whatever page was fetched.
Count(S, page) == Cardinality(S)

\* list_workspace_runs, first query: the page of runs of the workspace.
ListRuns(r) ==
    /\ pc[r] = "list_runs"
    /\ \E o \in NewestFirst(runs, RunsMatching(runs, local[r].workspace)) :
          local' = [local EXCEPT ![r].items =
                       Page(o, local[r].limit, local[r].offset)]
    /\ pc' = [pc EXCEPT ![r] = "count_runs"]
    /\ UNCHANGED <<workspaces, members, runs, call, resp, now, cache>>

\* The runs that `workspace.runs = runs` removes from a loaded collection:
\* delete-orphan marks them for deletion at the next flush of the session.
Orphans(r) ==
    IF call[r].op = "get_workspace_endpoint" /\ local[r].eager
    THEN local[r].loaded \ {local[r].items[k] : k \in 1..Len(local[r].items)}
    ELSE {}

\* Mutant: the session is committed when the request ends.
CloseSessionCommits(rs, orphans) ==
    SelectSeq(rs, LAMBDA row : row.id \notin orphans)

\* get_async_db closes the session without a flush or a commit (autoflush
\* is off): what is pending in it is discarded.
CloseSession(rs, orphans) == rs

\* list_workspace_runs, second query: the count of the runs of the
\* workspace; then the endpoint returns.  list_workspace_runs_endpoint
\* answers with the page and the total.  get_workspace_endpoint drops the
\* total and assigns the page to workspace.runs: on a workspace loaded by
\* get_workspace_by_slug the collections members and runs are not loaded,
\* and touching them makes the session load them outside an awaited call,
\* which the asyncio session refuses (MissingGreenlet): the request fails.
CountRuns(r) ==
    /\ pc[r] = "count_runs"
    /\ LET total == Count(RunsMatching(runs, local[r].workspace), local[r].items)
       IN resp' = [resp EXCEPT ![r] =
             IF call[r].op = "list_workspace_runs_endpoint"
             THEN [op |-> call[r].op, status |-> 200, raised |-> "none",
                   violations |-> {}, workspace_id |-> local[r].workspace,
                   items |-> local[r].items, total |-> total]
             ELSE IF local[r].eager
             THEN [op |-> call[r].op, status |-> 200, raised |-> "none",
                   violations |-> {}, workspace_id |-> local[r].workspace,
                   items |-> local[r].items]
             ELSE [op |-> call[r].op, status |-> 500, raised |-> "MissingGreenlet",
                   violations |-> {}, workspace_id |-> local[r].workspace,
                   items |-> <<>>]]
    /\ Finished(r)
    /\ runs' = CloseSession(runs, Orphans(r))
    /\ UNCHANGED <<workspaces, members, now, cache>>

-----------------------------------------------------------------------------
(* services/workspaces.py: list_workspaces *)

\* A request enters list_workspaces_endpoint with its validated limit and
\* offset.
BeginListWorkspaces(r, request) ==
    /\ pc[r] \in {"idle", "done"}
    /\ request.op = "list_workspaces_endpoint"
    /\ call' = [call EXCEPT ![r] = request]
    /\ local' = [local EXCEPT ![r] =
          [limit |-> request.limit, offset |-> request.offset, items |-> <<>>]]
    /\ resp' = [resp EXCEPT ![r] = NoResp]
    /\ pc' = [pc EXCEPT ![r] = "list_workspaces"]
    /\ UNCHANGED <<workspaces, members, runs, now, cache>>

\* list_workspaces, first query: the page of workspaces (with the members
\* of each, which selectinload fetches in the same call).
ListWorkspaces(r) ==
    /\ pc[r] = "list_workspaces"
    /\ \E o \in NewestFirst(workspaces, 1..Len(workspaces)) :
          local' = [local EXCEPT ![r].items =
                       Page(o, local[r].limit, local[r].offset)]
    /\ pc' = [pc EXCEPT ![r] = "count_workspaces"]
    /\ UNCHANGED <<workspaces, members, runs, call, resp, now, cache>>

\* list_workspaces, second query: the count of all workspaces; then
\* list_workspaces_endpoint answers with the page and the total.
CountWorkspaces(r) ==
    /\ pc[r] = "count_workspaces"
    /\ resp' = [resp EXCEPT ![r] =
          [op |-> call[r].op, status |-> 200, raised |-> "none",
           violations |-> {},
           items |-> local[r].items,
           total |-> Count(1..Len(workspaces), local[r].items)]]
    /\ Finished(r)
    /\ UNCHANGED <<workspaces, members, runs, now, cache>>

-----------------------------------------------------------------------------
(* services/workspaces.py: create_workspace_run *)

RunIdTaken(rs, run_id) == \E i \in 1..Len(rs) : rs[i].run_id = run_id

\* Mutant: run_id is unique per workspace only (uq_workspace_run_id alone).
RunViolationsPerWorkspace(rs, row) ==
    {c \in {"uq_workspace_run_id"} :
        \E i \in 1..Len(rs) : /\ rs[i].workspace_id = row.workspace_id
                              /\ rs[i].run_id = row.run_id}
      \cup {c \in {"fk_workspace_runs_triggered_by"} : ~row.triggered_by_exists}

\* The constraints an INSERT of a workspace_runs row violates.
RunViolations(rs, row) ==
    {c \in {"uq_workspace_runs_run_id"} : RunIdTaken(rs, row.run_id)}
      \cup {c \in {"uq_workspace_run_id"} :
              \E i \in 1..Len(rs) : /\ rs[i].workspace_id = row.workspace_id
                                    /\ rs[i].run_id = row.run_id}
      \cup {c \in {"fk_workspace_runs_triggered_by"} : ~row.triggered_by_exists}

\* db.add(run); db.commit(): an IntegrityError rolls back and is re-raised,
\* and create_workspace_run_endpoint answers it with 409.
CommitRun(r) ==
    /\ pc[r] = "commit_run"
    /\ LET row == [id |-> Len(runs) + 1,
                   workspace_id |-> local[r].workspace,
                   created_at |-> local[r].began,
                   run_id |-> call[r].run_id,
                   triggered_by_exists |-> call[r].triggered_by_exists]
           viol == RunViolations(runs, row)
       IN IF viol = {}
          THEN /\ runs' = Append(runs, row)
               /\ resp' = [resp EXCEPT ![r] =
                     [op |-> call[r].op, status |-> 201, raised |-> "none",
                      violations |-> {}, run |-> row.id]]
          ELSE /\ runs' = runs
               /\ resp' = [resp EXCEPT ![r] =
                     [op |-> call[r].op, status |-> 409, raised |-> "IntegrityError",
                      violations |-> viol, run |-> 0]]
    /\ Finished(r)
    /\ UNCHANGED <<workspaces, members, now, cache>>

-----------------------------------------------------------------------------
(* services/workspaces.py: get_workspace_run_by_public_ids *)

\* Mutant: the query matches the run_id alone, whatever the workspace.
RunMatchesAnyWorkspace(ws, rs, identifier, run_id) ==
    {i \in 1..Len(rs) : rs[i].run_id = run_id}

\* The rows of workspace_runs JOIN workspaces that satisfy the WHERE clause:
\* run_id = :run_id AND (public_id = :identifier OR slug = :identifier).
RunMatches(ws, rs, identifier, run_id) ==
    {i \in 1..Len(rs) :
        /\ rs[i].run_id = run_id
        /\ \/ ws[rs[i].workspace_id].public_id = identifier
           \/ ws[rs[i].workspace_id].slug = identifier}

\* scalars().one_or_none() on more than one row raises.
MultipleResultsFound == -1

\* The id of the run the query returns, 0 for None.
get_workspace_run_by_public_ids(ws, rs, identifier, run_id) ==
    LET found == RunMatches(ws, rs, identifier, run_id)
    IN IF found = {} THEN 0
       ELSE IF Cardinality(found) = 1 THEN CHOOSE i \in found : TRUE
       ELSE MultipleResultsFound

\* A request enters get_workspace_run_endpoint.
BeginGetRun(r, request) ==
    /\ pc[r] \in {"idle", "done"}
    /\ request.op = "get_workspace_run_endpoint"
    /\ call' = [call EXCEPT ![r] = request]
    /\ local' = [local EXCEPT ![r] = NoLocal]
    /\ resp' = [resp EXCEPT ![r] = NoResp]
    /\ pc' = [pc EXCEPT ![r] = "get_run"]
    /\ UNCHANGED <<workspaces, members, runs, now, cache>>

\* The one query of get_workspace_run_by_public_ids, and the answer of the
\* endpoint: the run, or 404 when the query returned None.
GetRun(r) ==
    /\ pc[r] = "get_run"
    /\ LET run == get_workspace_run_by_public_ids(
                      workspaces, runs, call[r].workspace_id, call[r].run_id)
       IN resp' = [resp EXCEPT ![r] =
             IF run = MultipleResultsFound
             THEN [op |-> call[r].op, status |-> 500,
                   raised |-> "MultipleResultsFound", violations |-> {}, run |-> 0]
             ELSE IF run = 0
             THEN [op |-> call[r].op, status |-> 404, raised |-> "HTTPException",
                   violations |-> {}, run |-> 0]
             ELSE [op |-> call[r].op, status |-> 200, raised |-> "none",
                   violations |-> {}, run |-> run]]
    /\ Finished(r)
    /\ UNCHANGED <<workspaces, members, runs, now, cache>>

-----------------------------------------------------------------------------
(* services/workspaces.py: add_workspace_member, called by a unit of work  *)
(* that holds a workspace with its members collection loaded               *)

InSession(r) == call[r].op = "add_workspace_member" /\ pc[r] \in {"in_session", "flush"}

\* Rows a session has flushed (INSERTed) and not yet committed.
Uncommitted(r) == IF InSession(r) THEN local[r].inserted ELSE <<>>

\* selectinload(Workspace.members): the member objects of one workspace as
\* the session holds them, each with the values it was loaded with.
LoadedMembers(ms, wid) ==
    LET ids == SelectSeq([k \in 1..Len(ms) |-> k], LAMBDA k : ms[k].workspace_id = wid)
    IN [n \in 1..Len(ids) |->
           [id |-> ids[n], email |-> ms[ids[n]].email,
            role |-> ms[ids[n]].role, status |-> ms[ids[n]].status,
            joined_at |-> ms[ids[n]].joined_at,
            loaded_role |-> ms[ids[n]].role, loaded_status |-> ms[ids[n]].status,
            loaded_joined_at |-> ms[ids[n]].joined_at]]

\* A unit of work opens a session for the workspace with this public_id.
BeginMemberSession(r, public_id) ==
    /\ pc[r] \in {"idle", "done"}
    /\ call' = [call EXCEPT ![r] = [op |-> "add_workspace_member", workspace_id |-> public_id]]
    /\ local' = [local EXCEPT ![r] = NoLocal]
    /\ resp' = [resp EXCEPT ![r] = NoResp]
    /\ pc' = [pc EXCEPT ![r] = "load_workspace"]
    /\ UNCHANGED <<workspaces, members, runs, now, cache>>

\* get_workspace_by_public_id: the workspace and its members collection.
LoadWorkspace(r) ==
    /\ pc[r] = "load_workspace"
    /\ LET w == get_workspace_by_public_id(workspaces, call[r].workspace_id)
       IN IF w = 0
          THEN /\ resp' = [resp EXCEPT ![r] =
                     [op |-> call[r].op, status |-> 404, raised |-> "none",
                      violations |-> {}]]
               /\ Finished(r)
          ELSE /\ local' = [local EXCEPT ![r] =
                     [workspace |-> w,
                      began |-> now,
                      members |-> LoadedMembers(members, w),
                      inserted |-> <<>>]]
               /\ pc' = [pc EXCEPT ![r] = "in_session"]
               /\ UNCHANGED <<call, resp>>
    /\ UNCHANGED <<workspaces, members, runs, now, cache>>

\* next((m for m in workspace.members if m.email == member.email), None):
\* the position of the first match in the loaded collection, 0 for None.
ExistingMember(collection, email) ==
    IF \E n \in 1..Len(collection) : collection[n].email = email
    THEN CHOOSE n \in 1..Len(collection) :
            /\ collection[n].email = email
            /\ \A k \in 1..(n - 1) : collection[k].email # email
    ELSE 0

\* The emails the session knows to be in the workspace: those of the loaded
\* collection and those it inserted itself.
KnownEmails(r) ==
    {local[r].members[n].email : n \in 1..Len(local[r].members)}
      \cup {local[r].inserted[n].email : n \in 1..Len(local[r].inserted)}

\* Mutant: any existing member is promoted when the role is not viewer.
PromotedWhateverStatus(status, role) ==
    IF role # VIEWER THEN ACTIVE ELSE status

\* if existing.status == INVITED and member.role != VIEWER:
\*     existing.status = ACTIVE
Promoted(status, role) ==
    IF status = INVITED /\ role # VIEWER THEN ACTIVE ELSE status

\* status=ACTIVE if member.role != VIEWER else INVITED
NewMemberStatus(role) == IF role # VIEWER THEN ACTIVE ELSE INVITED

\* add_workspace_member up to its await: an existing member of the loaded
\* collection is updated in place and returned; otherwise a new
\* WorkspaceMember is added to the session and the call goes on to flush.
AddMemberCall(r, member) ==
    /\ pc[r] = "in_session"
    /\ call[r].op = "add_workspace_member"
    /\ LET existing == ExistingMember(local[r].members, member.email)
       IN IF existing # 0
          THEN /\ local' = [local EXCEPT ![r] =
                     [workspace |-> @.workspace,
                      began |-> @.began,
                      members |-> [@.members EXCEPT ![existing] =
                          [@ EXCEPT !.role = member.role,
                                    !.status = Promoted(@, member.role)]],
                      inserted |-> @.inserted]]
               /\ pc' = pc
          ELSE /\ Len(members) + PendingInitialMembers + PendingSessions < MaxMembers
               /\ local' = [local EXCEPT ![r] =
                     [workspace |-> @.workspace,
                      began |-> @.began,
                      members |-> @.members,
                      inserted |-> @.inserted,
                      known |-> member.email \in KnownEmails(r),
                      pending |-> [workspace_id |-> local[r].workspace,
                                   email |-> member.email,
                                   role |-> member.role,
                                   status |-> NewMemberStatus(member.role),
                                   joined_at |-> None,
                                   via |-> "add_workspace_member"]]]
               /\ pc' = [pc EXCEPT ![r] = "flush"]
    /\ UNCHANGED <<workspaces, members, runs, call, resp, now, cache>>

\* The sessions whose uncommitted row holds the key an INSERT needs: the
\* INSERT waits for them to commit or roll back.
Blockers(r) ==
    {q \in Req \ {r} :
        MemberEmailTaken(Uncommitted(q), local[r].pending.workspace_id,
                         local[r].pending.email)}

\* await db.flush() of add_workspace_member: the INSERT of the new member,
\* checked against the committed rows and the rows of its own transaction.
\* The IntegrityError is not caught: it ends the unit of work, whose
\* transaction is rolled back when the session closes.
FlushMember(r) ==
    /\ pc[r] = "flush"
    /\ Blockers(r) = {}
    /\ LET row == local[r].pending
           viol == MemberViolations(members \o local[r].inserted, row)
       IN IF viol = {}
          THEN /\ Len(members) + PendingInitialMembers + PendingSessions < MaxMembers
               /\ local' = [local EXCEPT ![r] =
                     [workspace |-> @.workspace,
                      began |-> @.began,
                      members |-> @.members,
                      inserted |-> Append(@.inserted, row)]]
               /\ pc' = [pc EXCEPT ![r] = "in_session"]
               /\ UNCHANGED <<call, resp>>
          ELSE /\ resp' = [resp EXCEPT ![r] =
                     [op |-> call[r].op, status |-> 500, raised |-> "IntegrityError",
                      violations |-> viol]]
               /\ Finished(r)
    /\ UNCHANGED <<workspaces, members, runs, now, cache>>

\* Two INSERTs wait for each other's transaction: the database aborts one
\* of them with a deadlock error, which ends its unit of work.
DeadlockAbort(r) ==
    /\ pc[r] = "flush"
    /\ \E q \in Blockers(r) : pc[q] = "flush" /\ r \in Blockers(q)
    /\ resp' = [resp EXCEPT ![r] =
          [op |-> call[r].op, status |-> 500, raised |-> "DBAPIError",
           violations |-> {}]]
    /\ Finished(r)
    /\ UNCHANGED <<workspaces, members, runs, now, cache>>

\* The UPDATE the unit of work emits for a loaded member: the attributes
\* whose value differs from the loaded one.
ApplyUpdates(ms, collection) ==
    [k \in 1..Len(ms) |->
        IF \E n \in 1..Len(collection) : collection[n].id = k
        THEN LET o == collection[CHOOSE n \in 1..Len(collection) : collection[n].id = k]
             IN [ms[k] EXCEPT !.role = IF o.role # o.loaded_role THEN o.role ELSE @,
                              !.status = IF o.status # o.loaded_status THEN o.status ELSE @,
                              !.joined_at = IF o.joined_at # o.loaded_joined_at
                                            THEN o.joined_at ELSE @]
        ELSE ms[k]]

-----------------------------------------------------------------------------
(* models/workspace.py: WorkspaceMember.accept / suspend / revoke, called   *)
(* by the unit of work on a member object it holds: one loaded with the    *)
(* workspace (collection "members") or one it added itself ("inserted")    *)

Held == {"members", "inserted"}

\* self.status = MembershipStatus.ACTIVE; self.joined_at = func.now(): the
\* clock value the UPDATE of this transaction will store.
accept(member, began) == [member EXCEPT !.status = ACTIVE, !.joined_at = Some(began)]

\* self.status = MembershipStatus.SUSPENDED
suspend(member) == [member EXCEPT !.status = SUSPENDED]

\* self.status = MembershipStatus.REVOKED
revoke(member) == [member EXCEPT !.status = REVOKED]

Accept(r, held, n) ==
    /\ pc[r] = "in_session"
    /\ call[r].op = "add_workspace_member"
    /\ n \in 1..Len(local[r][held])
    /\ local' = [local EXCEPT ![r][held][n] = accept(@, local[r].began)]
    /\ UNCHANGED <<workspaces, members, runs, pc, call, resp, now, cache>>

Suspend(r, held, n) ==
    /\ pc[r] = "in_session"
    /\ call[r].op = "add_workspace_member"
    /\ n \in 1..Len(local[r][held])
    /\ local' = [local EXCEPT ![r][held][n] = suspend(@)]
    /\ UNCHANGED <<workspaces, members, runs, pc, call, resp, now, cache>>

Revoke(r, held, n) ==
    /\ pc[r] = "in_session"
    /\ call[r].op = "add_workspace_member"
    /\ n \in 1..Len(local[r][held])
    /\ local' = [local EXCEPT ![r][held][n] = revoke(@)]
    /\ UNCHANGED <<workspaces, members, runs, pc, call, resp, now, cache>>

\* The caller commits the session: the pending UPDATEs and the flushed
\* INSERTs become visible together.
CommitSession(r) ==
    /\ pc[r] = "in_session"
    /\ call[r].op = "add_workspace_member"
    /\ members' = ApplyUpdates(members, local[r].members) \o local[r].inserted
    /\ resp' = [resp EXCEPT ![r] =
          [op |-> call[r].op, status |-> 200, raised |-> "none",
           violations |-> {}]]
    /\ Finished(r)
    /\ UNCHANGED <<workspaces, runs, now, cache>>

-----------------------------------------------------------------------------
(* models/workspace.py: WorkspaceRun.record_stage_metrics, set_evaluation  *)
(* and set_compliance, called by a unit of work on a run object it holds   *)

PASS == "pass"
REVIEW == "review"
FAIL == "fail"
ComplianceStatus == {PASS, REVIEW, FAIL}

\* Scores, among them 0.0, which is supplied although falsy.
Scores == {0, 87}

\* Reports (dicts, as sets of their keys), among them the empty dict.
Reports == {{}, {"flags"}}

\* Lists of per-stage metrics.
StageMetrics == {<<>>, <<"ideation">>, <<"ideation", "build">>}

\* WorkspaceRun(...) as create_workspace_run builds it from a payload: one
\* with the schema's defaults, one with every optional attribute given.
RunObjects ==
    {[run_id |-> "run-1", compliance_status |-> PASS,
      evaluation_score |-> None, evaluation_report |-> None,
      compliance_report |-> None, stage_metrics |-> <<>>,
      telemetry |-> {}],
     [run_id |-> "run-2", compliance_status |-> REVIEW,
      evaluation_score |-> Some(87), evaluation_report |-> Some({"flags"}),
      compliance_report |-> Some({"flags"}), stage_metrics |-> <<"ideation">>,
      telemetry |-> {"tokens"}]}

\* self.stage_metrics = metrics
record_stage_metrics(self, metrics) == [self EXCEPT !.stage_metrics = metrics]

\* Mutant: both attributes are assigned whatever was supplied.
set_evaluation_unconditional(self, score, report) ==
    [self EXCEPT !.evaluation_score = score, !.evaluation_report = report]

\* if score is not None: self.evaluation_score = score
\* if report is not None: self.evaluation_report = report
set_evaluation(self, score, report) ==
    [self EXCEPT !.evaluation_score = IF score # None THEN score ELSE @,
                 !.evaluation_report = IF report # None THEN report ELSE @]

\* self.compliance_status = status
\* if report is not None: self.compliance_report = report
set_compliance(self, status, report) ==
    [self EXCEPT !.compliance_status = status,
                 !.compliance_report = IF report # None THEN report ELSE @]

\* A unit of work holds a run object.
HoldRun(r, run) ==
    /\ pc[r] \in {"idle", "done"}
    /\ resp' = [resp EXCEPT ![r] = NoResp]
    /\ call' = [call EXCEPT ![r] = [op |-> "run_mutators"]]
    /\ local' = [local EXCEPT ![r] = [run |-> run]]
    /\ pc' = [pc EXCEPT ![r] = "holding"]
    /\ UNCHANGED <<workspaces, members, runs, now, cache>>

RecordStageMetrics(r, metrics) ==
    /\ pc[r] = "holding"
    /\ local' = [local EXCEPT ![r].run = record_stage_metrics(@, metrics)]
    /\ UNCHANGED <<workspaces, members, runs, pc, call, resp, now, cache>>

SetEvaluation(r, score, report) ==
    /\ pc[r] = "holding"
    /\ local' = [local EXCEPT ![r].run = set_evaluation(@, score, report)]
    /\ UNCHANGED <<workspaces, members, runs, pc, call, resp, now, cache>>

SetCompliance(r, status, report) ==
    /\ pc[r] = "holding"
    /\ local' = [local EXCEPT ![r].run = set_compliance(@, status, report)]
    /\ UNCHANGED <<workspaces, members, runs, pc, call, resp, now, cache>>

\* The unit of work ends without a commit: the object is gone.
DropRun(r) ==
    /\ pc[r] = "holding"
    /\ resp' = [resp EXCEPT ![r] =
          [op |-> call[r].op, status |-> 0, raised |-> "none", violations |-> {}]]
    /\ Finished(r)
    /\ UNCHANGED <<workspaces, members, runs, now, cache>>

-----------------------------------------------------------------------------
(* core/cache.py: CacheManager over a Redis store *)

CacheKeys == {"k1", "k2"}

\* settings.CACHE_TTL
CACHE_TTL == 3600

\* A key of the store: absent, or a string value with an expiry in seconds
\* (ex = 0: the key never expires).
Absent == [present |-> FALSE, value |-> "", ex |-> 0]
Stored(value, ex) == [present |-> TRUE, value |-> value, ex |-> ex]

\* CacheManager() before connect(): self._redis is None; the store is up
\* and empty.
NoCache == [redis |-> FALSE, up |-> TRUE, data |-> [k \in CacheKeys |-> Absent]]

\* json.dumps(value, default=str) of an int.
dumps(value) == ToString(value)

\* The strings json.loads decodes, here the renderings of the ints in use.
Decodable == {dumps(n) : n \in 0..(MaxCounter + 1)}

\* json.loads(text): the int, or JSONDecodeError.
loads(text) ==
    IF text \in Decodable
    THEN [raised |-> "none", value |-> CHOOSE n \in 0..(MaxCounter + 1) : dumps(n) = text]
    ELSE [raised |-> "JSONDecodeError", value |-> 0]

\* The property CacheManager.redis and the awaited command on the client:
\* RuntimeError without a client, ConnectionError when the store is down.
RedisCall(c) ==
    IF ~c.redis THEN "RuntimeError"
    ELSE IF ~c.up THEN "ConnectionError"
    ELSE "none"

\* The names an except clause of cache.py can resolve: the two imports from
\* redis.exceptions and the exception class the json module defines.
Resolvable == {"RedisError", "ConnectionError", "json.JSONDecodeError"}

\* The exceptions that are instances of a class.
InstancesOf(class) ==
    IF class = "RedisError" THEN {"RedisError", "ConnectionError", "ResponseError"}
    ELSE IF class = "ConnectionError" THEN {"ConnectionError"}
    ELSE IF class = "json.JSONDecodeError" THEN {"JSONDecodeError"}
    ELSE {}

\* `except (classes) as e: ... return <benign>`: what leaves the try
\* statement when `raised` arrives.  The tuple of classes is evaluated
\* first; a name that does not resolve raises AttributeError there.
Except(raised, classes) ==
    IF raised = "none" THEN "none"
    ELSE IF \E c \in classes : c \notin Resolvable THEN "AttributeError"
    ELSE IF \E c \in classes : raised \in InstancesOf(c) THEN "none"
    ELSE raised

\* ttl or settings.CACHE_TTL, ttl an Optional[int] (None is 0 here).
EffectiveTtl(ttl) == IF ttl # 0 THEN ttl ELSE CACHE_TTL

\* The method returns or raises: what the caller gets.  `error` is the
\* exception the try body raised ("none" when it ran through), `raised`
\* the one that left the method, `returned` the rendering of the value.
CacheReturn(r, op, error, raised, returned) ==
    /\ resp' = [resp EXCEPT ![r] =
          [op |-> op, status |-> 0, raised |-> raised, violations |-> {},
           error |-> error,
           returned |-> IF raised = "none" THEN returned ELSE "raised"]]
    /\ pc' = [pc EXCEPT ![r] = "done"]
    /\ call' = [call EXCEPT ![r] = Idle]
    /\ local' = [local EXCEPT ![r] = NoLocal]
    /\ UNCHANGED <<workspaces, members, runs, now>>

\* connect(): builds the client and pings the store; a ConnectionError
\* resets self._redis to None and is re-raised.
CacheConnect(r) ==
    /\ pc[r] \in {"idle", "done"}
    /\ cache' = [cache EXCEPT !.redis = cache.up]
    /\ LET error == IF cache.up THEN "none" ELSE "ConnectionError"
       IN CacheReturn(r, "connect", error, error, "None")

\* get(key)
CacheGet(r, key) ==
    /\ pc[r] \in {"idle", "done"}
    /\ cache' = cache
    /\ LET entry == cache.data[key]
           decoded == loads(entry.value)
           error == IF RedisCall(cache) # "none" THEN RedisCall(cache)
                    ELSE IF entry.present THEN decoded.raised
                    ELSE "none"
       IN CacheReturn(r, "get", error,
                      Except(error, {"RedisError", "json.JSONDecodeError"}),
                      IF error = "none" /\ entry.present
                      THEN ToString(decoded.value) ELSE "None")

\* set(key, value, ttl)
CacheSet(r, key, value, ttl) ==
    /\ pc[r] \in {"idle", "done"}
    /\ LET error == RedisCall(cache)
       IN /\ cache' = IF error = "none"
                      THEN [cache EXCEPT !.data[key] =
                               Stored(dumps(value), EffectiveTtl(ttl))]
                      ELSE cache
          /\ CacheReturn(r, "set", error,
                         Except(error, {"RedisError", "json.JSONEncodeError"}),
                         IF error = "none" THEN "True" ELSE "False")

\* delete(key): bool() of the number of keys removed.
CacheDelete(r, key) ==
    /\ pc[r] \in {"idle", "done"}
    /\ LET error == RedisCall(cache)
       IN /\ cache' = IF error = "none"
                      THEN [cache EXCEPT !.data[key] = Absent] ELSE cache
          /\ CacheReturn(r, "delete", error, Except(error, {"RedisError"}),
                         IF error = "none" /\ cache.data[key].present
                         THEN "True" ELSE "False")

\* exists(key)
CacheExists(r, key) ==
    /\ pc[r] \in {"idle", "done"}
    /\ cache' = cache
    /\ LET error == RedisCall(cache)
       IN CacheReturn(r, "exists", error, Except(error, {"RedisError"}),
                      IF error = "none" /\ cache.data[key].present
                      THEN "True" ELSE "False")

\* increment(key, amount): INCRBY creates a missing key (without expiry),
\* keeps the expiry of an existing one, and answers a value that is not an
\* integer with a ResponseError.
CacheIncrement(r, key, amount) ==
    /\ pc[r] \in {"idle", "done"}
    /\ LET entry == cache.data[key]
           old == IF entry.present /\ entry.value \in Decodable
                  THEN loads(entry.value).value ELSE 0
           error == IF RedisCall(cache) # "none" THEN RedisCall(cache)
                    ELSE IF entry.present /\ entry.value \notin Decodable
                    THEN "ResponseError"
                    ELSE "none"
       IN /\ old + amount <= MaxCounter
          /\ cache' = IF error = "none"
                      THEN [cache EXCEPT !.data[key] =
                               Stored(dumps(old + amount), entry.ex)]
                      ELSE cache
          /\ CacheReturn(r, "increment", error, Except(error, {"RedisError"}),
                         IF error = "none" THEN ToString(old + amount) ELSE "None")

\* expire(key, ttl)
CacheExpire(r, key, ttl) ==
    /\ pc[r] \in {"idle", "done"}
    /\ LET error == RedisCall(cache)
           entry == cache.data[key]
       IN /\ cache' = IF error = "none" /\ entry.present
                      THEN [cache EXCEPT !.data[key] = Stored(entry.value, ttl)]
                      ELSE cache
          /\ CacheReturn(r, "expire", error, Except(error, {"RedisError"}),
                         IF error = "none" /\ entry.present
                         THEN "True" ELSE "False")

\* The dict get_many builds, rendered: the keys in the order given, those
\* without a value or with an undecodable one left out.
RECURSIVE RenderFound(_, _, _)
RenderFound(data, keys, k) ==
    IF k > Len(keys) THEN ""
    ELSE (IF data[keys[k]].present /\ data[keys[k]].value \in Decodable
          THEN keys[k] \o ":" \o ToString(loads(data[keys[k]].value).value) \o ";"
          ELSE "")
         \o RenderFound(data, keys, k + 1)

\* get_many(keys)
CacheGetMany(r, keys) ==
    /\ pc[r] \in {"idle", "done"}
    /\ cache' = cache
    /\ LET error == RedisCall(cache)
       IN CacheReturn(r, "get_many", error, Except(error, {"RedisError"}),
                      IF error = "none"
                      THEN "{" \o RenderFound(cache.data, keys, 1) \o "}"
                      ELSE "{}")

\* set_many(data, ttl): one pipeline (MULTI/EXEC) that sets every key.
CacheSetMany(r, data, ttl) ==
    /\ pc[r] \in {"idle", "done"}
    /\ LET error == RedisCall(cache)
       IN /\ cache' = IF error = "none"
                      THEN [cache EXCEPT !.data =
                               [k \in CacheKeys |->
                                   IF k \in DOMAIN data
                                   THEN Stored(dumps(data[k]), EffectiveTtl(ttl))
                                   ELSE cache.data[k]]]
                      ELSE cache
          /\ CacheReturn(r, "set_many", error,
                         Except(error, {"RedisError", "json.JSONEncodeError"}),
                         IF error = "none" THEN "True" ELSE "False")

\* The keys of the store a glob pattern matches.
KeysMatching(data, pattern) ==
    {k \in CacheKeys : data[k].present /\ (pattern = "*" \/ pattern = k)}

\* clear_pattern(pattern), first command: KEYS pattern; without a match the
\* method returns 0.
CacheClearKeys(r, pattern) ==
    /\ pc[r] \in {"idle", "done"}
    /\ cache' = cache
    /\ LET error == RedisCall(cache)
           keys == KeysMatching(cache.data, pattern)
       IN IF error = "none" /\ keys # {}
          THEN /\ pc' = [pc EXCEPT ![r] = "cache_delete"]
               /\ call' = [call EXCEPT ![r] = [op |-> "clear_pattern"]]
               /\ local' = [local EXCEPT ![r] = [keys |-> keys]]
               /\ resp' = [resp EXCEPT ![r] = NoResp]
               /\ UNCHANGED <<workspaces, members, runs, now>>
          ELSE CacheReturn(r, "clear_pattern", error,
                           Except(error, {"RedisError"}), "0")

\* clear_pattern(pattern), second command: DELETE of the keys found; the
\* method returns the number of keys the store removed.
CacheClearDelete(r) ==
    /\ pc[r] = "cache_delete"
    /\ LET error == RedisCall(cache)
           removed == {k \in local[r].keys : cache.data[k].present}
       IN /\ cache' = IF error = "none"
                      THEN [cache EXCEPT !.data =
                               [k \in CacheKeys |->
                                   IF k \in removed THEN Absent ELSE cache.data[k]]]
                      ELSE cache
          /\ CacheReturn(r, "clear_pattern", error, Except(error, {"RedisError"}),
                         IF error = "none" THEN ToString(Cardinality(removed)) ELSE "0")

\* The store becomes unreachable, or reachable again.
StoreFails ==
    /\ cache.up
    /\ cache' = [cache EXCEPT !.up = FALSE]
    /\ UNCHANGED <<workspaces, members, runs, pc, call, local, resp, now>>

StoreRecovers ==
    /\ ~cache.up
    /\ cache' = [cache EXCEPT !.up = TRUE]
    /\ UNCHANGED <<workspaces, members, runs, pc, call, local, resp, now>>

\* The store drops a key whose expiry has passed.
KeyExpires(key) ==
    /\ cache.data[key].present
    /\ cache.data[key].ex > 0
    /\ cache' = [cache EXCEPT !.data[key] = Absent]
    /\ UNCHANGED <<workspaces, members, runs, pc, call, local, resp, now>>

\* Another client of the same store writes a value that is not JSON.
OtherClientWrites(key) ==
    /\ cache.up
    /\ cache' = [cache EXCEPT !.data[key] = Stored("oops", 0)]
    /\ UNCHANGED <<workspaces, members, runs, pc, call, local, resp, now>>

\* Time passes on the database server.
Tick ==
    /\ now < MaxClock
    /\ now' = now + 1
    /\ UNCHANGED <<workspaces, members, runs, pc, call, local, resp, cache>>

-----------------------------------------------------------------------------
(* Initial state: empty tables, no request in flight *)

Init ==
    /\ workspaces = <<>>
    /\ members = <<>>
    /\ runs = <<>>
    /\ pc = [r \in Req |-> "idle"]
    /\ call = [r \in Req |-> Idle]
    /\ local = [r \in Req |-> NoLocal]
    /\ resp = [r \in Req |-> NoResp]
    /\ now = 0
    /\ cache = NoCache

-----------------------------------------------------------------------------
(* Specification: concurrent workspace creation, slug generation *)

Email1 == "a@x.io"
Email2 == "b@x.io"

SlugPayloads ==
    [name : {"Acme Corp", "ACME  corp!", "!!!"},
     slug : {None, Some(""), Some("acme-corp"), Some("acme-corp-2")},
     members : {<<>>},
     creator_exists : {TRUE}]

NextCreate ==
    \E r \in Req :
        \/ \E p \in SlugPayloads : BeginCreateWorkspace(r, p)
        \/ SlugCheck(r)
        \/ CommitCreateWorkspace(r)

SpecCreate == Init /\ [][NextCreate]_vars

-----------------------------------------------------------------------------
(* Specification: _generate_unique_slug over tables with slugs in use *)

\* A workspace persisted earlier under a supplied slug.
Persisted(id, slug) ==
    [id |-> id, public_id |-> IF id = 1 THEN "uuid-1" ELSE "uuid-2",
     name |-> "Acme Corp", slug |-> slug, created_at |-> 0,
     creator_exists |-> TRUE, generated |-> FALSE, supplied |-> <<>>]

SlugTables ==
    {<<>>,
     <<Persisted(1, "acme-corp")>>,
     <<Persisted(1, "acme-corp-2")>>,
     <<Persisted(1, "acme-corp-3")>>,
     <<Persisted(1, "acme-corp"), Persisted(2, "acme-corp-2")>>,
     <<Persisted(1, "acme-corp"), Persisted(2, "acme-corp-3")>>,
     <<Persisted(1, "acme-corp-3"), Persisted(2, "acme-corp-2")>>}

InitSlugTables ==
    /\ workspaces \in SlugTables
    /\ members = <<>>
    /\ runs = <<>>
    /\ pc = [r \in Req |-> "idle"]
    /\ call = [r \in Req |-> Idle]
    /\ local = [r \in Req |-> NoLocal]
    /\ resp = [r \in Req |-> NoResp]
    /\ now = 0
    /\ cache = NoCache

GeneratedPayloads ==
    [name : {"Acme Corp"},
     slug : {None, Some("acme-corp-2")},
     members : {<<>>},
     creator_exists : {TRUE}]

NextSlug ==
    \E r \in Req :
        \/ \E name \in {"Acme Corp", "ACME  corp!"} : BeginGenerateSlug(r, name)
        \/ ReturnSlug(r)
        \/ \E p \in GeneratedPayloads : BeginCreateWorkspace(r, p)
        \/ SlugCheck(r)
        \/ CommitCreateWorkspace(r)

SpecSlug == InitSlugTables /\ [][NextSlug]_vars

\* The event loop resumes a coroutine whose SELECT has been answered: an
\* iteration that can run does run.
SpecSlugFair ==
    /\ InitSlugTables
    /\ [][NextSlug]_vars
    /\ \A r \in Req : WF_vars(SlugCheck(r))

-----------------------------------------------------------------------------
(* Specification: the initial members of a workspace, in every role *)

RolePayloads ==
    [name : {"Acme Corp"},
     slug : {None},
     members : {<<>>}
               \cup {<<[email |-> Email1, role |-> a]>> : a \in WorkspaceRole}
               \cup {<<[email |-> Email1, role |-> OWNER],
                       [email |-> Email2, role |-> ADMIN]>>,
                     <<[email |-> Email1, role |-> EDITOR],
                       [email |-> Email2, role |-> VIEWER]>>,
                     <<[email |-> Email1, role |-> VIEWER],
                       [email |-> Email2, role |-> OWNER]>>},
     creator_exists : {TRUE}]

NextRoles ==
    \E r \in Req :
        \/ \E p \in RolePayloads : BeginCreateWorkspace(r, p)
        \/ SlugCheck(r)
        \/ CommitCreateWorkspace(r)

SpecRoles == Init /\ [][NextRoles]_vars

-----------------------------------------------------------------------------
(* Specification: workspace creation with initial members *)

MemberPayloads ==
    [name : {"Acme Corp"},
     slug : {None, Some("acme-corp")},
     members : {<<>>,
                <<[email |-> Email1, role |-> OWNER],
                  [email |-> Email2, role |-> VIEWER]>>,
                <<[email |-> Email1, role |-> ADMIN],
                  [email |-> Email1, role |-> EDITOR]>>},
     creator_exists : {TRUE, FALSE}]

NextAtomic ==
    \E r \in Req :
        \/ \E p \in MemberPayloads : BeginCreateWorkspace(r, p)
        \/ SlugCheck(r)
        \/ CommitCreateWorkspace(r)

SpecAtomic == Init /\ [][NextAtomic]_vars

-----------------------------------------------------------------------------
(* Specification: workspaces addressed by a path parameter *)

\* Supplied slugs are free text: a client may pass the text of a public id.
AddressedPayloads ==
    [name : {"Acme Corp"},
     slug : {None, Some("uuid-1")},
     members : {<<>>},
     creator_exists : {TRUE}]

ResolveRequests ==
    [op : {"get_workspace_endpoint"},
     workspace_id : {"uuid-1", "acme-corp", "acme-corp-9"},
     run_limit : {10}]
    \cup
    [op : {"list_workspace_runs_endpoint"},
     workspace_id : {"uuid-1", "acme-corp", "acme-corp-9"},
     limit : {50}, offset : {0}]
    \cup
    [op : {"create_workspace_run_endpoint"},
     workspace_id : {"uuid-1", "acme-corp", "acme-corp-9"},
     run_id : {"run-1"},
     triggered_by_exists : {TRUE}]

NextResolve ==
    \E r \in Req :
        \/ \E p \in AddressedPayloads : BeginCreateWorkspace(r, p)
        \/ SlugCheck(r)
        \/ CommitCreateWorkspace(r)
        \/ \E q \in ResolveRequests : BeginResolving(r, q)
        \/ ResolvePublicId(r)
        \/ ResolveSlug(r)
        \/ ListRuns(r)
        \/ CountRuns(r)
        \/ CommitRun(r)

SpecResolve == Init /\ [][NextResolve]_vars

-----------------------------------------------------------------------------
(* Specification: runs created under two workspaces *)

RunPayloads ==
    [name : {"Acme Corp"},
     slug : {None},
     members : {<<>>},
     creator_exists : {TRUE}]

RunRequests ==
    [op : {"list_workspace_runs_endpoint"},
     workspace_id : {"acme-corp", "acme-corp-2"},
     limit : {50}, offset : {0}]
    \cup
    [op : {"create_workspace_run_endpoint"},
     workspace_id : {"acme-corp", "acme-corp-2"},
     run_id : {"run-1", "run-2"},
     triggered_by_exists : {TRUE, FALSE}]

NextRuns ==
    \E r \in Req :
        \/ \E p \in RunPayloads : BeginCreateWorkspace(r, p)
        \/ SlugCheck(r)
        \/ CommitCreateWorkspace(r)
        \/ \E q \in RunRequests : BeginResolving(r, q)
        \/ ResolvePublicId(r)
        \/ ResolveSlug(r)
        \/ ListRuns(r)
        \/ CountRuns(r)
        \/ CommitRun(r)

SpecRuns == Init /\ [][NextRuns]_vars

-----------------------------------------------------------------------------
(* Specification: paged listings of workspaces and of runs *)

PagePayloads ==
    [name : {"Acme Corp"},
     slug : {None},
     members : {<<>>},
     creator_exists : {TRUE}]

PageRequests ==
    [op : {"list_workspace_runs_endpoint"},
     workspace_id : {"acme-corp"},
     limit : {1, 2}, offset : {0, 1}]
    \cup
    [op : {"get_workspace_endpoint"},
     workspace_id : {"uuid-1", "acme-corp"},
     run_limit : {1}]
    \cup
    [op : {"create_workspace_run_endpoint"},
     workspace_id : {"acme-corp"},
     run_id : {"run-1", "run-2"},
     triggered_by_exists : {TRUE}]

ListRequests ==
    [op : {"list_workspaces_endpoint"}, limit : {1, 2}, offset : {0, 1}]

\* The state after one create_workspace call for "Acme Corp" without a
\* slug and without members.
InitOneWorkspace ==
    /\ workspaces = <<[id |-> 1, public_id |-> "uuid-1", name |-> "Acme Corp",
                       slug |-> "acme-corp", created_at |-> 0,
                       creator_exists |-> TRUE, generated |-> TRUE,
                       supplied |-> <<>>]>>
    /\ members = <<>>
    /\ runs = <<>>
    /\ pc = [r \in Req |-> "idle"]
    /\ call = [r \in Req |-> Idle]
    /\ local = [r \in Req |-> NoLocal]
    /\ resp = [r \in Req |-> NoResp]
    /\ now = 0
    /\ cache = NoCache

\* Listings with their totals while workspaces and runs are created.
NextTotals ==
    \E r \in Req :
        \/ \E p \in PagePayloads : BeginCreateWorkspace(r, p)
        \/ SlugCheck(r)
        \/ CommitCreateWorkspace(r)
        \/ \E q \in {x \in PageRequests : x.op # "get_workspace_endpoint"} :
              BeginResolving(r, q)
        \/ ResolvePublicId(r)
        \/ ResolveSlug(r)
        \/ ListRuns(r)
        \/ CountRuns(r)
        \/ CommitRun(r)
        \/ \E q \in ListRequests : BeginListWorkspaces(r, q)
        \/ ListWorkspaces(r)
        \/ CountWorkspaces(r)

SpecTotals == InitOneWorkspace /\ [][NextTotals]_vars

\* Listings whose page holds every row there is (limit 2, offset 0), while
\* workspaces and runs are created.
WholeRequests ==
    [op : {"list_workspace_runs_endpoint"},
     workspace_id : {"acme-corp"},
     limit : {MaxRuns}, offset : {0}]
    \cup
    [op : {"create_workspace_run_endpoint"},
     workspace_id : {"acme-corp"},
     run_id : {"run-1", "run-2"},
     triggered_by_exists : {TRUE}]

WholeListRequests ==
    [op : {"list_workspaces_endpoint"}, limit : {MaxWorkspaces}, offset : {0}]

NextTwoReads ==
    \E r \in Req :
        \/ \E p \in PagePayloads : BeginCreateWorkspace(r, p)
        \/ SlugCheck(r)
        \/ CommitCreateWorkspace(r)
        \/ \E q \in WholeRequests : BeginResolving(r, q)
        \/ ResolvePublicId(r)
        \/ ResolveSlug(r)
        \/ ListRuns(r)
        \/ CountRuns(r)
        \/ CommitRun(r)
        \/ \E q \in WholeListRequests : BeginListWorkspaces(r, q)
        \/ ListWorkspaces(r)
        \/ CountWorkspaces(r)

SpecTwoReads == InitOneWorkspace /\ [][NextTwoReads]_vars

\* The four read endpoints, while runs are created.
ReadRequests ==
    [op : {"get_workspace_endpoint"},
     workspace_id : {"uuid-1", "acme-corp"},
     run_limit : {1}]
    \cup
    [op : {"list_workspace_runs_endpoint"},
     workspace_id : {"uuid-1"},
     limit : {1}, offset : {0, 1}]
    \cup
    [op : {"get_workspace_run_endpoint"},
     workspace_id : {"uuid-1"},
     run_id : {"run-1", "run-3"}]
    \cup
    [op : {"create_workspace_run_endpoint"},
     workspace_id : {"uuid-1"},
     run_id : {"run-1", "run-2"},
     triggered_by_exists : {TRUE}]

NextReads ==
    \E r \in Req :
        \/ \E q \in ReadRequests :
              \/ BeginResolving(r, q)
              \/ BeginGetRun(r, q)
        \/ ResolvePublicId(r)
        \/ ResolveSlug(r)
        \/ ListRuns(r)
        \/ CountRuns(r)
        \/ CommitRun(r)
        \/ GetRun(r)
        \/ \E q \in ListRequests : BeginListWorkspaces(r, q)
        \/ ListWorkspaces(r)
        \/ CountWorkspaces(r)

SpecReads == InitOneWorkspace /\ [][NextReads]_vars

\* The same with the clock running and with get_workspace_endpoint.
NextPages ==
    \/ Tick
    \/ \E r \in Req :
          \/ \E p \in PagePayloads : BeginCreateWorkspace(r, p)
          \/ SlugCheck(r)
          \/ CommitCreateWorkspace(r)
          \/ \E q \in PageRequests : BeginResolving(r, q)
          \/ ResolvePublicId(r)
          \/ ResolveSlug(r)
          \/ ListRuns(r)
          \/ CountRuns(r)
          \/ CommitRun(r)
          \/ \E q \in ListRequests : BeginListWorkspaces(r, q)
          \/ ListWorkspaces(r)
          \/ CountWorkspaces(r)

SpecPages == InitOneWorkspace /\ [][NextPages]_vars

-----------------------------------------------------------------------------
(* Specification: runs fetched by workspace identifier and run_id *)

\* The second workspace takes the public id of the first as its slug.
ShadowPayloads ==
    [name : {"Acme Corp"},
     slug : {Some("uuid-1")},
     members : {<<>>},
     creator_exists : {TRUE}]

FetchRequests ==
    [op : {"create_workspace_run_endpoint"},
     workspace_id : {"acme-corp", "uuid-2"},
     run_id : {"run-1", "run-2"},
     triggered_by_exists : {TRUE}]
    \cup
    [op : {"get_workspace_run_endpoint"},
     workspace_id : {"uuid-1", "acme-corp", "uuid-2"},
     run_id : {"run-1", "run-2"}]

NextFetch ==
    \E r \in Req :
        \/ \E p \in ShadowPayloads : BeginCreateWorkspace(r, p)
        \/ CommitCreateWorkspace(r)
        \/ \E q \in FetchRequests :
              \/ BeginResolving(r, q)
              \/ BeginGetRun(r, q)
        \/ ResolvePublicId(r)
        \/ ResolveSlug(r)
        \/ CommitRun(r)
        \/ GetRun(r)

SpecFetch == InitOneWorkspace /\ [][NextFetch]_vars

-----------------------------------------------------------------------------
(* Specification: one caller of the cache facade, the store failing at times *)

CacheClients == {"r1"}

NextCache ==
    \/ StoreFails
    \/ StoreRecovers
    \/ \E key \in CacheKeys :
          \/ KeyExpires(key)
          \/ OtherClientWrites(key)
    \/ \E r \in CacheClients :
          \/ CacheConnect(r)
          \/ \E key \in CacheKeys :
                \/ CacheGet(r, key)
                \/ \E ttl \in {0, 60} : CacheSet(r, key, 1, ttl)
                \/ CacheDelete(r, key)
                \/ CacheExists(r, key)
                \/ CacheIncrement(r, key, 1)
                \/ CacheExpire(r, key, 60)
          \/ CacheGetMany(r, <<"k1", "k2">>)
          \/ \E ttl \in {0, 60} : CacheSetMany(r, [k \in CacheKeys |-> 2], ttl)
          \/ \E pattern \in {"*", "k1"} : CacheClearKeys(r, pattern)
          \/ CacheClearDelete(r)

SpecCache == Init /\ [][NextCache]_vars

-----------------------------------------------------------------------------
(* Specification: a store written only through the facade *)

NextCacheWrites ==
    \/ \E key \in CacheKeys : KeyExpires(key)
    \/ \E r \in CacheClients :
          \/ CacheConnect(r)
          \/ \E key \in CacheKeys :
                \/ \E ttl \in {0, 60} : CacheSet(r, key, 1, ttl)
                \/ CacheIncrement(r, key, 1)
                \/ CacheDelete(r, key)
          \/ \E ttl \in {0, 60} : CacheSetMany(r, [k \in CacheKeys |-> 2], ttl)

SpecCacheWrites == Init /\ [][NextCacheWrites]_vars

-----------------------------------------------------------------------------
(* Specification: members added at creation and by add_workspace_member *)

MembershipPayloads ==
    [name : {"Acme Corp"},
     slug : {None},
     members : {<<>>, <<[email |-> Email1, role |-> VIEWER]>>},
     creator_exists : {TRUE}]

MemberCreates == [email : {Email1, Email2}, role : {EDITOR, VIEWER}]

NextMembers ==
    \E r \in Req :
        \/ \E p \in MembershipPayloads : BeginCreateWorkspace(r, p)
        \/ SlugCheck(r)
        \/ CommitCreateWorkspace(r)
        \/ \E id \in {"uuid-1"} : BeginMemberSession(r, id)
        \/ LoadWorkspace(r)
        \/ \E m \in MemberCreates : AddMemberCall(r, m)
        \/ FlushMember(r)
        \/ DeadlockAbort(r)
        \/ CommitSession(r)

SpecMembers == Init /\ [][NextMembers]_vars

-----------------------------------------------------------------------------
(* Specification: add_workspace_member in every role, on members in every  *)
(* status                                                                  *)

UpsertCreates == [email : {Email1}, role : WorkspaceRole]

NextUpsert ==
    \E r \in Req :
        \/ \E id \in {"uuid-1"} : BeginMemberSession(r, id)
        \/ LoadWorkspace(r)
        \/ \E m \in UpsertCreates : AddMemberCall(r, m)
        \/ FlushMember(r)
        \/ \E n \in 1..MaxMembers :
              \/ Suspend(r, "members", n)
              \/ Revoke(r, "members", n)
        \/ CommitSession(r)

SpecUpsert == InitOneWorkspace /\ [][NextUpsert]_vars

-----------------------------------------------------------------------------
(* Specification: the mutators of a run *)

Optional(S) == {None} \cup {Some(v) : v \in S}

RunHolders == {"r1"}

NextMutators ==
    \E r \in RunHolders :
        \/ \E run \in RunObjects : HoldRun(r, run)
        \/ \E metrics \in StageMetrics : RecordStageMetrics(r, metrics)
        \/ \E score \in Optional(Scores), report \in Optional(Reports) :
              SetEvaluation(r, score, report)
        \/ \E status \in ComplianceStatus, report \in Optional(Reports) :
              SetCompliance(r, status, report)
        \/ DropRun(r)

SpecMutators == InitOneWorkspace /\ [][NextMutators]_vars

-----------------------------------------------------------------------------
(* Specification: the life cycle of a membership *)

LifecycleCreates == [email : {Email1}, role : {EDITOR, VIEWER}]

NextLifecycle ==
    \E r \in Req :
        \/ \E id \in {"uuid-1"} : BeginMemberSession(r, id)
        \/ LoadWorkspace(r)
        \/ \E m \in LifecycleCreates : AddMemberCall(r, m)
        \/ FlushMember(r)
        \/ \E held \in Held, n \in 1..MaxMembers :
              \/ Accept(r, held, n)
              \/ Suspend(r, held, n)
              \/ Revoke(r, held, n)
        \/ CommitSession(r)

SpecLifecycle == InitOneWorkspace /\ [][NextLifecycle]_vars

-----------------------------------------------------------------------------
(* Properties of workspace creation *)

CreateDone(r) == call[r].op = "create_workspace" /\ pc[r] = "done"

\* C1: no two persisted workspaces have the same slug, and no two have the
\* same public_id, whatever the interleaving of create_workspace calls.
C1_UniqueSlugAndPublicId ==
    \A i, j \in 1..Len(workspaces) :
        i # j => /\ workspaces[i].slug # workspaces[j].slug
                 /\ workspaces[i].public_id # workspaces[j].public_id

\* Two workspaces are persisted, one under a generated and one under a
\* supplied slug, after a creation was rejected for its public_id.
C1_Witness ==
    /\ Len(workspaces) = 2
    /\ workspaces[1].generated /\ ~workspaces[2].generated
    /\ \E r \in Req : /\ CreateDone(r)
                      /\ "uq_workspaces_public_id" \in resp[r].violations

\* The k-th candidate of _generate_unique_slug: base, base-2, base-3, ...
Candidate(base, k) == IF k = 1 THEN base ELSE base \o "-" \o ToString(k)

BaseSlug(name) == IF slugify(name) # "" THEN slugify(name) ELSE "workspace"

\* C2: of two workspaces created from the same name without a slug, the
\* later one has a different slug: the base slug with a numeric suffix k >= 2
\* that is larger than the earlier one's and is the first one not in use
\* (after 'acme-corp' comes 'acme-corp-2').
C2_SecondGetsNextSuffix ==
    \A i, j \in 1..Len(workspaces) :
        (/\ i < j
         /\ workspaces[i].generated /\ workspaces[j].generated
         /\ workspaces[i].name = workspaces[j].name)
        => LET base == BaseSlug(workspaces[j].name)
           IN /\ workspaces[i].slug # workspaces[j].slug
              /\ \E k1 \in 1..Len(workspaces), k2 \in 2..(Len(workspaces) + 1) :
                    /\ k1 < k2
                    /\ workspaces[i].slug = Candidate(base, k1)
                    /\ workspaces[j].slug = Candidate(base, k2)
                    /\ \A m \in 1..(k2 - 1) :
                          \E h \in 1..(j - 1) : workspaces[h].slug = Candidate(base, m)

\* "Acme Corp" was created twice without a slug: acme-corp, then acme-corp-2.
C2_Witness ==
    /\ Len(workspaces) = 2
    /\ workspaces[1].name = "Acme Corp" /\ workspaces[2].name = "Acme Corp"
    /\ workspaces[1].generated /\ workspaces[2].generated
    /\ workspaces[1].slug = "acme-corp" /\ workspaces[2].slug = "acme-corp-2"

\* C20: _generate_unique_slug returns the candidate of its last check, the
\* k-th of base, base-2, base-3, ... after k checks (never base-1); no
\* persisted workspace uses it at that check, and every earlier candidate
\* is in use.
C20_FirstFreeCandidate ==
    [][\A r \in Req :
          (pc[r] = "slug_check" /\ pc'[r] = "commit")
          => LET k == local'[r].checks
             IN /\ k = local[r].checks + 1
                /\ local'[r].slug = Candidate(local[r].base_slug, k)
                /\ local'[r].slug # local[r].base_slug \o "-1"
                /\ ~SlugTaken(workspaces, local'[r].slug)
                /\ \A j \in 1..(k - 1) :
                      SlugTaken(workspaces, Candidate(local[r].base_slug, j))]_vars

\* With acme-corp and acme-corp-3 persisted and acme-corp-2 free, a call
\* returned acme-corp-2 after two checks.
C20_Witness ==
    /\ SlugTaken(workspaces, "acme-corp")
    /\ SlugTaken(workspaces, "acme-corp-3")
    /\ ~SlugTaken(workspaces, "acme-corp-2")
    /\ \E r \in Req :
          /\ pc[r] = "done"
          /\ resp[r].op = "_generate_unique_slug"
          /\ resp[r].slug = "acme-corp-2"
          /\ resp[r].checks = 2

\* C26: _generate_unique_slug terminates.  Every check that found its
\* candidate in use found another persisted workspace, so a call has made
\* at most as many failed checks as there are workspaces and returns with
\* at most one check more than that (n + 1 for n workspaces when none is
\* inserted meanwhile); and a call in its loop eventually leaves it.
C26_SlugLoopTerminates ==
    /\ [](\A r \in Req :
             pc[r] = "slug_check" => local[r].checks <= Len(workspaces))
    /\ [][\A r \in Req :
             (pc[r] = "slug_check" /\ pc'[r] = "commit")
             => local'[r].checks <= Len(workspaces) + 1]_vars
    /\ \A r \in Req : (pc[r] = "slug_check") ~> (pc[r] # "slug_check")

\* With acme-corp and acme-corp-2 persisted, a call returned after three
\* checks: one more than the number of workspaces.
C26_Witness ==
    /\ Len(workspaces) = 2
    /\ \E r \in Req :
          /\ pc[r] = "done"
          /\ resp[r].op = "_generate_unique_slug"
          /\ resp[r].checks = Len(workspaces) + 1
          /\ resp[r].slug = "acme-corp-3"

\* C3: create_workspace with a supplied slug that an existing workspace
\* already has ends in WorkspaceAlreadyExistsError (409) and leaves the
\* persisted workspaces and members as they were.
C3_DuplicateSlugRejected ==
    [][\A r \in Req :
          (/\ pc[r] = "commit" /\ pc'[r] = "done"
           /\ call[r].op = "create_workspace"
           /\ ~local[r].generated
           /\ SlugTaken(workspaces, local[r].slug))
          => /\ resp'[r].status = 409
             /\ resp'[r].raised = "WorkspaceAlreadyExistsError"
             /\ workspaces' = workspaces
             /\ members' = members]_vars

\* A creation with a supplied, already used slug and two members was refused.
C3_Witness ==
    \E r \in Req :
        /\ CreateDone(r)
        /\ ~local[r].generated
        /\ Len(call[r].members) = 2
        /\ resp[r].status = 409
        /\ "uq_workspaces_slug" \in resp[r].violations
        /\ Len(workspaces) = 1

\* C4: two calls that generated the same candidate never both succeed; the
\* one that fails raises WorkspaceAlreadyExistsError; exactly one succeeds
\* unless the slug went to a third workspace or a commit failed on another
\* constraint; and a commit, failed or not, ends the call (no new slug check).
C4_RaceHasOneWinner ==
    /\ [](\A r1, r2 \in Req :
            (/\ r1 # r2
             /\ CreateDone(r1) /\ CreateDone(r2)
             /\ local[r1].generated /\ local[r2].generated
             /\ local[r1].slug = local[r2].slug)
            => /\ ~(resp[r1].status = 201 /\ resp[r2].status = 201)
               /\ \A r \in {r1, r2} :
                     resp[r].status # 201 =>
                        /\ resp[r].status = 409
                        /\ resp[r].raised = "WorkspaceAlreadyExistsError"
               /\ \/ resp[r1].status = 201
                  \/ resp[r2].status = 201
                  \/ \E r \in {r1, r2} : resp[r].violations # {"uq_workspaces_slug"}
                  \/ SlugTaken(workspaces, local[r1].slug))
    /\ [][\A r \in Req :
            (pc[r] = "commit" /\ call[r].op = "create_workspace" /\ pc'[r] # pc[r])
            => /\ pc'[r] = "done"
               /\ local'[r] = local[r]]_vars

\* Both requests generated the same slug; one was created, the other refused
\* for the slug after one check.
C4_Witness ==
    \E r1, r2 \in Req :
        /\ r1 # r2
        /\ CreateDone(r1) /\ CreateDone(r2)
        /\ local[r1].generated /\ local[r2].generated
        /\ local[r1].slug = local[r2].slug
        /\ resp[r1].status = 201
        /\ resp[r2].status = 409
        /\ resp[r2].violations = {"uq_workspaces_slug"}
        /\ local[r2].checks = 1

\* The member rows a creation call persists for its supplied members.
InitialRowsOf(wid) ==
    SelectSeq(members, LAMBDA m : m.workspace_id = wid /\ m.via = "create_workspace")

\* C5: a persisted workspace has a member row for every member supplied with
\* it, every member row belongs to a persisted workspace, and a creation
\* whose commit fails leaves the workspaces and members untouched.
C5_CreationAllOrNothing ==
    /\ [](/\ \A i \in 1..Len(workspaces) :
               InitialRowsOf(i) =
                  [k \in 1..Len(workspaces[i].supplied) |->
                      InitialMember(i, workspaces[i].supplied[k])]
          /\ \A k \in 1..Len(members) :
               members[k].workspace_id \in 1..Len(workspaces))
    /\ [][\A r \in Req :
            (/\ pc[r] = "commit" /\ pc'[r] = "done"
             /\ call[r].op = "create_workspace"
             /\ resp'[r].status # 201)
            => workspaces' = workspaces /\ members' = members]_vars

\* A workspace with two members is persisted, and a creation that supplied
\* the same email twice was refused.
C5_Witness ==
    /\ \E i \in 1..Len(workspaces) : Len(InitialRowsOf(i)) = 2
    /\ \E r \in Req :
          /\ CreateDone(r)
          /\ resp[r].status = 409
          /\ resp[r].violations = {"uq_workspace_member_email"}

\* The status an initial member is to have, role by role.
InitialStatusOf ==
    (OWNER :> ACTIVE) @@ (ADMIN :> INVITED) @@ (EDITOR :> INVITED)
        @@ (VIEWER :> INVITED)

\* C21: a successful create_workspace persists one member row per supplied
\* member, in order, with the supplied email and role and with status active
\* for role owner and invited for admin, editor and viewer.
C21_InitialMemberStatus ==
    [][\A r \in Req :
          (/\ pc[r] = "commit" /\ call[r].op = "create_workspace"
           /\ pc'[r] = "done" /\ resp'[r].status = 201)
          => LET supplied == call[r].members
             IN /\ Len(members') = Len(members) + Len(supplied)
                /\ \A k \in 1..Len(members) : members'[k] = members[k]
                /\ \A k \in 1..Len(supplied) :
                      LET m == members'[Len(members) + k]
                      IN /\ m.workspace_id = resp'[r].workspace_id
                         /\ m.email = supplied[k].email
                         /\ m.role = supplied[k].role
                         /\ m.status = InitialStatusOf[supplied[k].role]]_vars

\* A workspace was created with an owner and an admin: the owner's row is
\* active, the admin's row invited.
C21_Witness ==
    \E r \in Req :
        /\ CreateDone(r)
        /\ resp[r].status = 201
        /\ Len(call[r].members) = 2
        /\ call[r].members[1].role = OWNER
        /\ call[r].members[2].role = ADMIN
        /\ \E i, j \in 1..Len(members) :
              /\ members[i].workspace_id = resp[r].workspace_id
              /\ members[j].workspace_id = resp[r].workspace_id
              /\ members[i].role = OWNER /\ members[i].status = ACTIVE
              /\ members[j].role = ADMIN /\ members[j].status = INVITED

\* C15: create_workspace ends in WorkspaceAlreadyExistsError (HTTP 409)
\* exactly when the new workspace collides on slug or public_id; a commit
\* that fails on any other constraint is not reported that way.
C15_AlreadyExistsOnlyForWorkspaceCollision ==
    \A r \in Req :
        CreateDone(r) =>
           LET collision == resp[r].violations
                               \cap {"uq_workspaces_slug", "uq_workspaces_public_id"} # {}
           IN /\ resp[r].raised = "WorkspaceAlreadyExistsError" <=> collision
              /\ resp[r].status = 409 <=> collision

-----------------------------------------------------------------------------
(* Properties of workspace lookup *)

Matches(w, identifier) == w.public_id = identifier \/ w.slug = identifier

NoMatch(ws, identifier) == \A i \in 1..Len(ws) : ~Matches(ws[i], identifier)

Resolved(r) == pc[r] \in {"list_runs", "count_runs", "commit_run"}

\* C6: a request whose path parameter is the public_id or the slug of a
\* workspace that was persisted when the request arrived resolves to that
\* workspace, and is not answered 404.
C6_ResolvesToTheWorkspace ==
    /\ [](\A r \in Req :
            Resolved(r) =>
               \A i \in 1..local[r].seen :
                  Matches(workspaces[i], call[r].workspace_id)
                     => local[r].workspace = i)
    /\ [][\A r \in Req :
            (pc[r] = "resolve_slug" /\ pc'[r] = "done")
            => \A i \in 1..local[r].seen :
                  ~Matches(workspaces[i], call[r].workspace_id)]_vars

\* C7: while the identifier matches no persisted workspace, the request
\* never gets past _resolve_workspace; its second lookup ends it with 404
\* and without a new run; and every success answers for a workspace the
\* identifier matched.
C7_UnknownWorkspaceIs404 ==
    /\ [](\A r \in Req :
            Resolved(r) =>
               /\ local[r].workspace \in 1..Len(workspaces)
               /\ Matches(workspaces[local[r].workspace], call[r].workspace_id))
    /\ [][\A r \in Req :
            (/\ pc[r] \in {"resolve_public_id", "resolve_slug"}
             /\ pc'[r] # pc[r]
             /\ call[r].op \in ResolvingEndpoints
             /\ NoMatch(workspaces, call[r].workspace_id))
            => /\ pc'[r] \in {"resolve_slug", "done"}
               /\ pc'[r] = "done" => /\ resp'[r].status = 404
                                     /\ resp'[r].op = call[r].op
               /\ runs' = runs]_vars

\* With a workspace persisted, each of the three endpoints has answered 404.
C7_Witness ==
    /\ Len(workspaces) >= 1
    /\ runs = <<>>
    /\ \E r1, r2 \in Req :
          /\ pc[r1] = "done" /\ pc[r2] = "done"
          /\ resp[r1].status = 404 /\ resp[r2].status = 404
          /\ resp[r1].op = "create_workspace_run_endpoint"
          /\ resp[r2].op \in {"get_workspace_endpoint", "list_workspace_runs_endpoint"}

-----------------------------------------------------------------------------
(* Properties of the listings *)

\* C11: whatever the limit and the offset, list_workspace_runs reports as
\* total the number of persisted runs of the workspace, and list_workspaces
\* the number of persisted workspaces, at the time of the count.
C11_TotalIsFullCount ==
    [][\A r \in Req :
          /\ (pc[r] = "count_runs" /\ pc'[r] = "done"
                 /\ call[r].op = "list_workspace_runs_endpoint")
             => resp'[r].total =
                   Cardinality({i \in 1..Len(runs) :
                                   runs[i].workspace_id = local[r].workspace})
          /\ (pc[r] = "count_workspaces" /\ pc'[r] = "done")
             => resp'[r].total = Len(workspaces)]_vars

\* With two workspaces and two runs persisted, a listing of the workspaces
\* and a listing of the runs each returned one item and the total 2.
C11_Witness ==
    \E r1, r2 \in Req :
        /\ pc[r1] = "done" /\ pc[r2] = "done"
        /\ resp[r1].op = "list_workspaces_endpoint"
        /\ Len(resp[r1].items) = 1 /\ resp[r1].total = 2
        /\ resp[r2].op = "list_workspace_runs_endpoint"
        /\ Len(resp[r2].items) = 1 /\ resp[r2].total = 2

\* C27: a listing with offset 0 never returns more items than the total it
\* reports, although the page and the count are read one after the other
\* and creations commit in between.
C27_ItemsWithinTotal ==
    \A r \in Req :
        (/\ pc[r] = "done"
         /\ resp[r].op \in {"list_workspaces_endpoint", "list_workspace_runs_endpoint"}
         /\ resp[r].status = 200)
        => Len(resp[r].items) <= resp[r].total

\* A listing of the runs asked for every run (limit MaxRuns, offset 0), read
\* a page of one run, and reported a total of two: the second run was
\* committed between the two reads.
C27_Witness ==
    \E r \in Req :
        /\ pc[r] = "done"
        /\ resp[r].op = "list_workspace_runs_endpoint"
        /\ resp[r].status = 200
        /\ Len(resp[r].items) = 1
        /\ resp[r].total = 2

\* C12: a listing of the runs of workspace w holds only runs of w, and its
\* total counts only the runs of w: runs of other workspaces are neither
\* among the items nor in the total.
C12_RunListIsScoped ==
    /\ [](\A r \in Req :
            (/\ pc[r] = "done"
             /\ resp[r].op = "list_workspace_runs_endpoint"
             /\ resp[r].status = 200)
            => /\ \A k \in 1..Len(resp[r].items) :
                     runs[resp[r].items[k]].workspace_id = resp[r].workspace_id
               /\ resp[r].total <=
                     Cardinality({i \in 1..Len(runs) :
                                     runs[i].workspace_id = resp[r].workspace_id}))
    /\ [][\A r \in Req :
            (pc[r] = "commit_run" /\ pc'[r] = "done")
            => \A q \in Req :
                  (/\ pc[q] = "count_runs"
                   /\ local[q].workspace # local[r].workspace)
                  => Count(RunsOf(runs', local[q].workspace), <<>>)
                        = Count(RunsOf(runs, local[q].workspace), <<>>)]_vars

\* Each of two workspaces has a run, and a listing of the runs of one of
\* them returned its one run with the total 1.
C12_Witness ==
    /\ \E i, j \in 1..Len(runs) : runs[i].workspace_id # runs[j].workspace_id
    /\ \E r \in Req :
          /\ pc[r] = "done"
          /\ resp[r].op = "list_workspace_runs_endpoint"
          /\ resp[r].status = 200
          /\ Len(resp[r].items) = 1
          /\ resp[r].total = 1
          /\ Len(runs) = 2

\* C13: get_workspace_run_by_public_ids returns run i exactly when i has the
\* requested run_id and its workspace has the identifier as public_id or as
\* slug; when no run does, the endpoint answers 404 (so also when the run_id
\* exists under a workspace the identifier does not name); and never does
\* more than one run match.
C13_RunFetchedByEitherIdentifier ==
    [][\A r \in Req :
          (pc[r] = "get_run" /\ pc'[r] = "done")
          => LET hits == {i \in 1..Len(runs) :
                            /\ runs[i].run_id = call[r].run_id
                            /\ Matches(workspaces[runs[i].workspace_id],
                                       call[r].workspace_id)}
             IN /\ Cardinality(hits) <= 1
                /\ hits = {} => resp'[r].status = 404 /\ resp'[r].run = 0
                /\ \A i \in hits : resp'[r].status = 200 /\ resp'[r].run = i]_vars

\* run-1 belongs to the first workspace and run-2 to the second, whose slug
\* is the first one's public id; a fetch returned run-2, and a fetch of a
\* persisted run_id was answered 404.
C13_Witness ==
    /\ Len(runs) = 2
    /\ runs[1].workspace_id # runs[2].workspace_id
    /\ \E r1, r2 \in Req :
          /\ pc[r1] = "done" /\ pc[r2] = "done"
          /\ resp[r1].op = "get_workspace_run_endpoint"
          /\ resp[r1].status = 200
          /\ workspaces[runs[resp[r1].run].workspace_id].slug = "uuid-1"
          /\ resp[r2].op = "get_workspace_run_endpoint"
          /\ resp[r2].status = 404

\* _resolve_workspace on a table: the workspace of that public_id, else the
\* one of that slug, else 0.
ResolvesTo(ws, identifier) ==
    IF get_workspace_by_public_id(ws, identifier) # 0
    THEN get_workspace_by_public_id(ws, identifier)
    ELSE get_workspace_by_slug(ws, identifier)

\* C28: a run that GET /workspaces/X/runs/{run_id} returns belongs to the
\* workspace that GET /workspaces/X/runs resolves X to in the same state.
C28_FetchAgreesWithListing ==
    [][\A r \in Req :
          (pc[r] = "get_run" /\ pc'[r] = "done" /\ resp'[r].status = 200)
          => runs[resp'[r].run].workspace_id =
                ResolvesTo(workspaces, call[r].workspace_id)]_vars

ReadEndpoints ==
    {"list_workspaces_endpoint", "get_workspace_endpoint",
     "list_workspace_runs_endpoint", "get_workspace_run_endpoint"}

\* C30: no step of a request to one of the four read endpoints changes the
\* persisted workspaces, members or runs; in particular the runs that
\* get_workspace_endpoint leaves out of workspace.runs stay persisted.
C30_ReadsLeaveStoreUnchanged ==
    [][\A r \in Req :
          (/\ <<pc[r], call[r], local[r], resp[r]>>'
                 # <<pc[r], call[r], local[r], resp[r]>>
           /\ \/ call[r].op \in ReadEndpoints
              \/ call'[r].op \in ReadEndpoints)
          => <<workspaces, members, runs>>' = <<workspaces, members, runs>>]_vars

\* GET /workspaces/uuid-1 with run_limit 1 answered 200 with one run, and
\* the two runs of the workspace are persisted.
C30_Witness ==
    /\ Len(runs) = 2
    /\ \A i \in 1..Len(runs) : runs[i].id = i /\ runs[i].workspace_id = 1
    /\ \E r \in Req :
          /\ pc[r] = "done"
          /\ resp[r].op = "get_workspace_endpoint"
          /\ resp[r].status = 200
          /\ Len(resp[r].items) = 1

\* items is the slice [offset, offset + limit) of the rows S of table t in
\* the order of created_at, most recent first: it has the length of the
\* slice, repeats no row, and its k-th row has fewer than offset + k rows
\* that are more recent and at least offset + k that are as recent or more.
IsSlice(items, t, S, limit, offset) ==
    LET n == Cardinality(S)
        len == IF offset >= n THEN 0
               ELSE IF limit < n - offset THEN limit ELSE n - offset
    IN /\ Len(items) = len
       /\ \A k \in 1..Len(items) : items[k] \in S
       /\ \A j, k \in 1..Len(items) : j # k => items[j] # items[k]
       /\ \A k \in 1..Len(items) :
             LET c == t[items[k]].created_at
             IN /\ Cardinality({i \in S : t[i].created_at > c}) < offset + k
                /\ Cardinality({i \in S : t[i].created_at >= c}) >= offset + k

\* C19: the page list_workspaces fetches is the slice [offset, offset+limit)
\* of the persisted workspaces, most recently created first; the page
\* list_workspace_runs fetches is that slice of the runs of the workspace;
\* and get_workspace_endpoint answers with the run_limit most recent runs
\* of the workspace it resolved.
C19_PagesAreNewestFirstSlices ==
    [][\A r \in Req :
          /\ (pc[r] = "list_workspaces" /\ pc'[r] # pc[r])
             => IsSlice(local'[r].items, workspaces, 1..Len(workspaces),
                        local[r].limit, local[r].offset)
          /\ (pc[r] = "list_runs" /\ pc'[r] # pc[r])
             => IsSlice(local'[r].items, runs,
                        {i \in 1..Len(runs) : runs[i].workspace_id = local[r].workspace},
                        local[r].limit, local[r].offset)
          /\ (pc[r] \in {"count_workspaces", "count_runs"} /\ pc'[r] = "done")
             => /\ resp'[r].status = 200
                /\ resp'[r].items = local[r].items
          /\ (/\ pc[r] = "list_runs" /\ pc'[r] # pc[r]
              /\ call[r].op = "get_workspace_endpoint")
             => local[r].limit = call[r].run_limit /\ local[r].offset = 0]_vars

-----------------------------------------------------------------------------
(* Properties of run creation *)

\* C10: no two persisted runs share a run_id; a create_workspace_run whose
\* run_id is already persisted, under any workspace, is answered 409 and
\* adds no run, so the runs of the workspace it targeted stay as they were;
\* the first call for a run_id, with valid references, persists the run.
C10_RunIdIsGloballyUnique ==
    /\ [](\A i, j \in 1..Len(runs) : i # j => runs[i].run_id # runs[j].run_id)
    /\ [][\A r \in Req :
            (pc[r] = "commit_run" /\ pc'[r] = "done")
            => IF RunIdTaken(runs, call[r].run_id)
               THEN /\ resp'[r].status = 409
                    /\ runs' = runs
                    /\ RunsOf(runs', local[r].workspace) = RunsOf(runs, local[r].workspace)
               ELSE call[r].triggered_by_exists
                       => /\ resp'[r].status = 201
                          /\ Len(runs') = Len(runs) + 1
                          /\ runs'[Len(runs')].run_id = call[r].run_id
                          /\ runs'[Len(runs')].workspace_id = local[r].workspace]_vars

\* run-1 is persisted under workspace 1; the same run_id submitted under
\* workspace 2 was answered 409, and workspace 2 has no run.
C10_Witness ==
    /\ Len(workspaces) = 2
    /\ Len(runs) = 1
    /\ runs[1].workspace_id = 1
    /\ RunsOf(runs, 2) = {}
    /\ \E r \in Req :
          /\ pc[r] = "done"
          /\ resp[r].op = "create_workspace_run_endpoint"
          /\ resp[r].status = 409
          /\ resp[r].violations = {"uq_workspace_runs_run_id"}

\* C18: create_workspace_run_endpoint answers 409 only when the submitted
\* run_id is already persisted; a commit that fails on another constraint
\* is not answered 409.
C18_ConflictOnlyForDuplicateRunId ==
    \A r \in Req :
        (/\ pc[r] = "done"
         /\ resp[r].op = "create_workspace_run_endpoint"
         /\ resp[r].status = 409)
        => resp[r].violations
              \cap {"uq_workspace_runs_run_id", "uq_workspace_run_id"} # {}

-----------------------------------------------------------------------------
(* Properties of membership *)

UniquePerWorkspace(ms) ==
    \A i, j \in 1..Len(ms) :
        i # j => ~(ms[i].workspace_id = ms[j].workspace_id /\ ms[i].email = ms[j].email)

\* C8: the persisted members hold at most one row per (workspace, email),
\* and so do the rows every open transaction sees (the committed rows and
\* its own inserts).
C8_OneMemberPerEmail ==
    /\ UniquePerWorkspace(members)
    /\ \A r \in Req : UniquePerWorkspace(members \o Uncommitted(r))

\* A workspace has a member from its creation and one from
\* add_workspace_member, and an INSERT of a duplicate was refused.
C8_Witness ==
    /\ \E i, j \in 1..Len(members) :
          /\ members[i].workspace_id = members[j].workspace_id
          /\ members[i].via = "create_workspace"
          /\ members[j].via = "add_workspace_member"
    /\ \E r \in Req :
          /\ pc[r] = "done"
          /\ resp[r].op = "add_workspace_member"
          /\ resp[r].violations = {"uq_workspace_member_email"}

\* C9: add_workspace_member for an email the unit of work knows to be in the
\* workspace (loaded with the workspace, or inserted by an earlier call)
\* does not fail and inserts no row.
C9_UpsertNeverFails ==
    [][\A r \in Req :
          (/\ call[r].op = "add_workspace_member"
           /\ pc[r] = "flush" /\ pc'[r] # "flush"
           /\ local[r].known)
          => /\ pc'[r] = "in_session"
             /\ local'[r].inserted = local[r].inserted]_vars

\* The status add_workspace_member is to leave: for a new email by role, for
\* an existing member by its status and the new role.
StatusForNew ==
    (OWNER :> ACTIVE) @@ (ADMIN :> ACTIVE) @@ (EDITOR :> ACTIVE)
        @@ (VIEWER :> INVITED)

StatusForExisting(status, role) ==
    IF status = INVITED /\ role \in {OWNER, ADMIN, EDITOR} THEN ACTIVE
    ELSE status

\* C22: add_workspace_member gives a new email status active for role owner,
\* admin or editor and invited for viewer; an existing member becomes active
\* when it was invited and the new role is not viewer and otherwise keeps
\* its status, and takes the new role.
C22_StatusLeftByAddMember ==
    [][\A r \in Req : \A member \in UpsertCreates :
          AddMemberCall(r, member)
          => LET existing == ExistingMember(local[r].members, member.email)
             IN IF existing # 0
                THEN /\ local'[r].members[existing].status =
                          StatusForExisting(local[r].members[existing].status,
                                            member.role)
                     /\ local'[r].members[existing].role = member.role
                     /\ \A n \in 1..Len(local[r].members) :
                           n # existing
                           => local'[r].members[n] = local[r].members[n]
                ELSE /\ pc'[r] = "flush"
                     /\ local'[r].pending.status = StatusForNew[member.role]
                     /\ local'[r].pending.role = member.role]_vars

\* A session holds a member it loaded as invited that add_workspace_member
\* made active with a new role, and another session holds a revoked member
\* that add_workspace_member gave a new role without touching its status.
C22_Witness ==
    \E r, q \in Req :
        /\ InSession(r) /\ InSession(q)
        /\ \E n \in 1..Len(local[r].members) :
              LET o == local[r].members[n]
              IN /\ o.loaded_status = INVITED /\ o.status = ACTIVE
                 /\ o.joined_at = None /\ o.role # o.loaded_role
        /\ \E n \in 1..Len(local[q].members) :
              LET o == local[q].members[n]
              IN /\ o.loaded_status = REVOKED /\ o.status = REVOKED
                 /\ o.role # o.loaded_role

\* C14: a persisted member whose status is revoked stays revoked, and a
\* member object whose status is revoked keeps it through every later
\* accept, suspend, revoke and add_workspace_member of its unit of work.
C14_RevokedIsTerminal ==
    [][/\ \A k \in 1..Len(members) :
             members[k].status = REVOKED => members'[k].status = REVOKED
       /\ \A r \in Req :
             (InSession(r) /\ InSession(r)')
             => \A held \in Held :
                   \A n \in 1..Len(local[r][held]) :
                      local[r][held][n].status = REVOKED
                         => local'[r][held][n].status = REVOKED]_vars

\* The specified transitions of a membership status, and what sequences of
\* them can make of a status.
Transition(a, b) ==
    \/ a = INVITED /\ b = ACTIVE
    \/ a = ACTIVE /\ b = SUSPENDED
    \/ a # REVOKED /\ b = REVOKED

TransitionPath(a, b) ==
    \/ a = b
    \/ Transition(a, b)
    \/ a = INVITED /\ b = SUSPENDED

\* C23: every change of the status of a member object held by a unit of
\* work is one of invited -> active, active -> suspended, non-revoked ->
\* revoked, and every change of a persisted member's status is a sequence
\* of these.
C23_OnlySpecifiedTransitions ==
    [][/\ \A k \in 1..Len(members) :
             TransitionPath(members[k].status, members'[k].status)
       /\ \A r \in Req :
             (InSession(r) /\ InSession(r)')
             => \A held \in Held :
                   \A n \in 1..Len(local[r][held]) :
                      \/ local'[r][held][n].status = local[r][held][n].status
                      \/ Transition(local[r][held][n].status,
                                    local'[r][held][n].status)]_vars

\* C29: every persisted member whose status is active has joined_at set.
C29_ActiveMembersHaveJoined ==
    \A k \in 1..Len(members) :
        members[k].status = ACTIVE => members[k].joined_at # None

\* C16: an add_workspace_member whose INSERT violates the uniqueness of
\* (workspace, email) ends in the domain error WorkspaceAlreadyExistsError,
\* not in the IntegrityError of the persistence layer.
C16_DuplicateMemberIsAlreadyExists ==
    \A r \in Req :
        (/\ pc[r] = "done"
         /\ resp[r].op = "add_workspace_member"
         /\ "uq_workspace_member_email" \in resp[r].violations)
        => /\ resp[r].raised = "WorkspaceAlreadyExistsError"
           /\ resp[r].raised # "IntegrityError"

-----------------------------------------------------------------------------
(* Properties of the run mutators *)

\* The attributes of the held run other than those in `changed` are the
\* same after the step, and so are the persisted tables.
OnlyChanges(r, changed) ==
    /\ \A f \in (DOMAIN local[r].run) \ changed :
          local'[r].run[f] = local[r].run[f]
    /\ DOMAIN local'[r].run = DOMAIN local[r].run
    /\ <<workspaces, members, runs>>' = <<workspaces, members, runs>>

\* C24: set_evaluation changes evaluation_score only when a score is supplied
\* and evaluation_report only when a report is supplied; set_compliance sets
\* compliance_status and changes compliance_report only when a report is
\* supplied; record_stage_metrics replaces stage_metrics; every other
\* attribute of the run and the persisted tables stay as they were.
C24_MutatorsArePartialPatches ==
    [][\A r \in RunHolders :
          LET old == local[r].run
              new == local'[r].run
          IN /\ \A score \in Optional(Scores), report \in Optional(Reports) :
                   SetEvaluation(r, score, report)
                   => /\ (score = None => new.evaluation_score = old.evaluation_score)
                      /\ (score # None => new.evaluation_score = score)
                      /\ (report = None => new.evaluation_report = old.evaluation_report)
                      /\ (report # None => new.evaluation_report = report)
                      /\ OnlyChanges(r, {"evaluation_score", "evaluation_report"})
             /\ \A status \in ComplianceStatus, report \in Optional(Reports) :
                   SetCompliance(r, status, report)
                   => /\ new.compliance_status = status
                      /\ (report = None => new.compliance_report = old.compliance_report)
                      /\ (report # None => new.compliance_report = report)
                      /\ OnlyChanges(r, {"compliance_status", "compliance_report"})
             /\ \A metrics \in StageMetrics :
                   RecordStageMetrics(r, metrics)
                   => /\ new.stage_metrics = metrics
                      /\ OnlyChanges(r, {"stage_metrics"})]_vars

\* A run created with a score of 87 and a report had set_evaluation(0.0, None)
\* and set_compliance(fail, {}) applied: the score is 0, the evaluation
\* report is the old one, the compliance report is the empty dict.
C24_Witness ==
    \E r \in RunHolders :
        /\ pc[r] = "holding"
        /\ local[r].run.run_id = "run-2"
        /\ local[r].run.evaluation_score = Some(0)
        /\ local[r].run.evaluation_report = Some({"flags"})
        /\ local[r].run.compliance_status = FAIL
        /\ local[r].run.compliance_report = Some({})
        /\ local[r].run.stage_metrics = <<"ideation", "build">>

-----------------------------------------------------------------------------
(* Properties of the cache facade *)

CacheOperations ==
    {"get", "set", "delete", "exists", "increment", "expire", "get_many",
     "set_many", "clear_pattern"}

\* The value each operation documents for a failure.
Benign(op) ==
    IF op \in {"get", "increment"} THEN "None"
    ELSE IF op = "get_many" THEN "{}"
    ELSE IF op = "clear_pattern" THEN "0"
    ELSE "False"

\* C17: no operation of the cache facade raises; when the client is not
\* connected or the store fails, the call returns its benign value.
C17_CacheFailuresAreAbsorbed ==
    \A r \in Req :
        (pc[r] = "done" /\ resp[r].op \in CacheOperations)
        => /\ resp[r].raised = "none"
           /\ resp[r].error \in {"RuntimeError", "ConnectionError", "ResponseError"}
                 => resp[r].returned = Benign(resp[r].op)

\* C25: in a store written only through set, set_many and increment, every
\* key has an expiry: the ttl supplied, or CACHE_TTL.
C25_EveryWriteCarriesTtl ==
    \A key \in CacheKeys :
        cache.data[key].present => cache.data[key].ex \in {60, CACHE_TTL}

====
